---- MODULE Spec2Model ----
(***************************************************************************)
(* A model of the LSM storage engine of dbms_bunjee (src/src/storage):     *)
(* Block, MemTable, WriteLog, SSTable and LSMEngine, with the directory    *)
(* of the engine (write.log and the sstable_<n>.dat files) as part of the  *)
(* state, so that dropping the engine and constructing a new one on the    *)
(* same directory is an operation of the model.                            *)
(*                                                                         *)
(* Option<T> is a sequence of length 0 (None) or 1 (Some).                 *)
(* A Record is [id, data]; data is a sequence of bytes.                    *)
(* File modification times are a logical clock that advances at every      *)
(* file write (no two files of the directory share an mtime).              *)
(***************************************************************************)
EXTENDS Integers, Sequences, FiniteSets, TLC

\* ------------------------------------------------------------- bounds
MaxId == 2
MaxByte == 2
MaxSpecByte == 1
MaxMemtableSize == 2
MaxWal == 2
MaxSstId == 3
MaxWritesSstId == 2
MaxCompactionWal == 1
MaxCompactionSstId == 6
MaxFreshId == 6
MaxFilesWal == 2
MaxFilesSstId == 9
MaxIoWal == 2
MaxIoSstId == 2
MaxLogId == 10
MaxLogWal == 2
MaxLogSstId == 1
MaxRows == 2
MaxVarchar == 2
MaxColumns == 2
MaxRecastLen == 3
MaxRecastByte == 127

\* lsm_engine.rs:142  `if self.sstables.len() > 4`
CompactionThreshold == 4
\* lsm_engine.rs:28   `next_sstable_id: 1`
FirstSstId == 1

Ids == 1..MaxId
Payloads == {<<b>> : b \in 1..MaxByte}
SpecPayloads == {<<b>> : b \in 1..MaxSpecByte}
MemtableSizes == 1..MaxMemtableSize

None == <<>>
Some(x) == <<x>>

\* ------------------------------------------------------------- Record
Record_new(id, data) == [id |-> id, data |-> data]

\* ------------------------------------------------------------- base64, decimal
\* base64 STANDARD alphabet as sextet values 0..63; 64 stands for the '=' pad.
Pad == 64

RECURSIVE Base64Encode(_)
Base64Encode(s) ==
    IF Len(s) = 0 THEN <<>>
    ELSE IF Len(s) = 1 THEN
        <<s[1] \div 4, (s[1] % 4) * 16, Pad, Pad>>
    ELSE IF Len(s) = 2 THEN
        <<s[1] \div 4, (s[1] % 4) * 16 + (s[2] \div 16), (s[2] % 16) * 4, Pad>>
    ELSE
        <<s[1] \div 4, (s[1] % 4) * 16 + (s[2] \div 16),
          (s[2] % 16) * 4 + (s[3] \div 64), s[3] % 64>>
        \o Base64Encode(SubSeq(s, 4, Len(s)))

\* Option<bytes>: None when the text is not canonical padded base64.
RECURSIVE Base64Decode(_)
Base64Decode(c) ==
    IF Len(c) = 0 THEN Some(<<>>)
    ELSE IF Len(c) < 4 \/ c[1] = Pad \/ c[2] = Pad THEN None
    ELSE IF c[3] = Pad THEN
        IF Len(c) = 4 /\ c[4] = Pad /\ c[2] % 16 = 0
        THEN Some(<<c[1] * 4 + (c[2] \div 16)>>)
        ELSE None
    ELSE IF c[4] = Pad THEN
        IF Len(c) = 4 /\ c[3] % 4 = 0
        THEN Some(<<c[1] * 4 + (c[2] \div 16), (c[2] % 16) * 16 + (c[3] \div 4)>>)
        ELSE None
    ELSE
        LET rest == Base64Decode(SubSeq(c, 5, Len(c)))
        IN  IF rest = None THEN None
            ELSE Some(<<c[1] * 4 + (c[2] \div 16),
                        (c[2] % 16) * 16 + (c[3] \div 4),
                        (c[3] % 4) * 64 + c[4]>> \o rest[1])

\* format!("{}", id): the decimal digits of id, most significant first.
RECURSIVE FormatU64(_)
FormatU64(n) ==
    IF n < 10 THEN <<n>> ELSE Append(FormatU64(n \div 10), n % 10)

\* str::parse::<u64>: Option<u64>.
RECURSIVE ParseDigits(_, _)
ParseDigits(d, acc) ==
    IF Len(d) = 0 THEN Some(acc)
    ELSE IF d[1] \notin 0..9 THEN None
    ELSE ParseDigits(Tail(d), acc * 10 + d[1])

ParseU64(d) == IF Len(d) = 0 THEN None ELSE ParseDigits(d, 0)

\* ------------------------------------------------------------- Block
\* Block::insert: the duplicate test's `false;` is a statement, not a return, so
\* the record is always pushed and the call always returns true.
Block_insert(recs, r) == [recs |-> Append(recs, r), ok |-> TRUE]

\* Block::get: the first record with the id.
Block_get(recs, id) ==
    IF \E i \in 1..Len(recs) : recs[i].id = id
    THEN LET i == CHOOSE i \in 1..Len(recs) :
                      /\ recs[i].id = id
                      /\ \A j \in 1..(i - 1) : recs[j].id # id
         IN  Some(recs[i])
    ELSE None

\* Block::update: replaces the data of the first record with the id.
Block_update(recs, id, data) ==
    IF \E i \in 1..Len(recs) : recs[i].id = id
    THEN LET i == CHOOSE i \in 1..Len(recs) :
                      /\ recs[i].id = id
                      /\ \A j \in 1..(i - 1) : recs[j].id # id
         IN  [recs |-> [recs EXCEPT ![i] = Record_new(id, data)], ok |-> TRUE]
    ELSE [recs |-> recs, ok |-> FALSE]

\* Block::delete: removes the first record with the id.
Block_delete(recs, id) ==
    IF \E i \in 1..Len(recs) : recs[i].id = id
    THEN LET i == CHOOSE i \in 1..Len(recs) :
                      /\ recs[i].id = id
                      /\ \A j \in 1..(i - 1) : recs[j].id # id
         IN  [recs |-> SubSeq(recs, 1, i - 1) \o SubSeq(recs, i + 1, Len(recs)),
              ok |-> TRUE]
    ELSE [recs |-> recs, ok |-> FALSE]

\* slice::sort_by_key(|r| r.id): a stable sort.
RECURSIVE SortById(_)
SortById(s) ==
    IF Len(s) <= 1 THEN s
    ELSE LET r    == s[Len(s)]
             init == SortById(SubSeq(s, 1, Len(s) - 1))
             k    == Cardinality({i \in 1..Len(init) : init[i].id <= r.id})
         IN  SubSeq(init, 1, k) \o <<r>> \o SubSeq(init, k + 1, Len(init))

\* Vec::dedup_by_key(|r| r.id): of each run of consecutive records with one id,
\* the first is kept.
RECURSIVE DedupById(_)
DedupById(s) ==
    IF Len(s) <= 1 THEN s
    ELSE LET rest == DedupById(Tail(s))
         IN  IF rest[1].id = s[1].id THEN <<s[1]>> \o Tail(rest)
             ELSE <<s[1]>> \o rest

\* slice::binary_search_by_key on a slice sorted by id: with several matches any
\* one of them may be returned, so the result is a set of possible outcomes.
BinarySearchOutcomes(recs, id) ==
    IF \E i \in 1..Len(recs) : recs[i].id = id
    THEN {Some(recs[i]) : i \in {j \in 1..Len(recs) : recs[j].id = id}}
    ELSE {None}

\* ------------------------------------------------------------- WriteLog
\* A line of write.log, as the fields between its commas: the tag, the decimal
\* id and, for INSERT and UPDATE, the base64 text of the payload.
InsertLine(r) == <<"INSERT", FormatU64(r.id), Base64Encode(r.data)>>
UpdateLine(id, data) == <<"UPDATE", FormatU64(id), Base64Encode(data)>>
DeleteLine(id) == <<"DELETE", FormatU64(id)>>

\* LogEntry::parse: Option<LogEntry>.
LogEntry_parse(parts) ==
    IF Len(parts) = 0 THEN None
    ELSE IF parts[1] = "INSERT" THEN
        IF Len(parts) = 3 /\ ParseU64(parts[2]) # None /\ Base64Decode(parts[3]) # None
        THEN Some([op |-> "Insert", id |-> ParseU64(parts[2])[1],
                   data |-> Base64Decode(parts[3])[1]])
        ELSE None
    ELSE IF parts[1] = "UPDATE" THEN
        IF Len(parts) = 3 /\ ParseU64(parts[2]) # None /\ Base64Decode(parts[3]) # None
        THEN Some([op |-> "Update", id |-> ParseU64(parts[2])[1],
                   data |-> Base64Decode(parts[3])[1]])
        ELSE None
    ELSE IF parts[1] = "DELETE" THEN
        IF Len(parts) = 2 /\ ParseU64(parts[2]) # None
        THEN Some([op |-> "Delete", id |-> ParseU64(parts[2])[1], data |-> <<>>])
        ELSE None
    ELSE None

\* Mutant of replay: the entries newest first.
RECURSIVE ReplayNewestFirst(_)
ReplayNewestFirst(lines) ==
    IF Len(lines) = 0 THEN <<>>
    ELSE ReplayNewestFirst(Tail(lines)) \o LogEntry_parse(lines[1])

\* WriteLog::replay: the entries of the lines that parse, in file order.
RECURSIVE WriteLog_replay(_)
WriteLog_replay(lines) ==
    IF Len(lines) = 0 THEN <<>>
    ELSE LogEntry_parse(lines[1]) \o WriteLog_replay(Tail(lines))

\* ------------------------------------------------------------- MemTable
\* A world w is the engine and its directory:
\*   max_size, mem    MemTable.max_size, MemTable.data.records
\*   wal              the lines of <data_dir>/write.log
\*   ssts             LSMEngine.sstables: [path, block, is_loaded], front first
\*   next             LSMEngine.next_sstable_id
\*   files            n |-> [recs, mtime] for each sstable_<n>.dat that exists
\*   clock            the mtime the next file write gets
MemTable_is_full(w) == Len(w.mem) >= w.max_size

\* Mutant of MemTable::insert: no test of is_full.
InsertIgnoringBound(w, r) ==
    [w |-> [w EXCEPT !.mem = Block_insert(w.mem, r).recs], ok |-> TRUE]

MemTable_insert(w, r) ==
    IF MemTable_is_full(w) THEN [w |-> w, ok |-> FALSE]
    ELSE [w |-> [w EXCEPT !.mem = Block_insert(w.mem, r).recs],
          ok |-> Block_insert(w.mem, r).ok]

MemTable_update(w, id, data) ==
    [w |-> [w EXCEPT !.mem = Block_update(w.mem, id, data).recs],
     ok |-> Block_update(w.mem, id, data).ok]

MemTable_delete(w, id) ==
    [w |-> [w EXCEPT !.mem = Block_delete(w.mem, id).recs],
     ok |-> Block_delete(w.mem, id).ok]

\* MemTable::flush_to_block: a new Block filled by Block::insert, record by record.
RECURSIVE CopyBlock(_, _)
CopyBlock(recs, acc) ==
    IF Len(recs) = 0 THEN acc
    ELSE CopyBlock(Tail(recs), Block_insert(acc, recs[1]).recs)

MemTable_flush_to_block(recs) == CopyBlock(recs, <<>>)

\* ------------------------------------------------------------- SSTable
\* Block::save_to_disk: creates or truncates the file and writes the records.
SaveToDisk(w, path, recs) ==
    [w EXCEPT !.files = (path :> [recs |-> recs, mtime |-> w.clock]) @@ w.files,
              !.clock = w.clock + 1]

\* SSTable::create_from_block: sorts, refills a Block by Block::insert, saves it.
SSTable_create_from_block(w, recs, path) ==
    LET sorted == CopyBlock(SortById(recs), <<>>)
    IN  [w   |-> SaveToDisk(w, path, sorted),
         sst |-> [path |-> path, block |-> sorted, is_loaded |-> TRUE]]

SSTable_new_lazy(path) == [path |-> path, block |-> <<>>, is_loaded |-> FALSE]

\* An integer in bincode's fixed-width little-endian encoding (a u64 is 8 bytes
\* wide), and back.
RECURSIVE LeBytes(_, _)
LeBytes(n, width) ==
    IF width = 0 THEN <<>> ELSE <<n % 256>> \o LeBytes(n \div 256, width - 1)

RECURSIVE U64FromLeBytes(_)
U64FromLeBytes(b) ==
    IF Len(b) = 0 THEN 0 ELSE b[1] + 256 * U64FromLeBytes(Tail(b))

\* bincode::serialize(&self.records) of Block::save_to_disk: the number of
\* records, then of each record its id, the length of its data and the data.
RECURSIVE bincode_serialize_records(_)
bincode_serialize_records(recs) ==
    IF Len(recs) = 0 THEN <<>>
    ELSE LeBytes(recs[1].id, 8) \o LeBytes(Len(recs[1].data), 8) \o recs[1].data
         \o bincode_serialize_records(Tail(recs))

bincode_serialize(recs) == LeBytes(Len(recs), 8) \o bincode_serialize_records(recs)

\* bincode::deserialize::<Vec<Record>> of Block::load_from_disk, as an Option:
\* None when the bytes end before the records do.
RECURSIVE bincode_deserialize_records(_, _, _)
bincode_deserialize_records(bytes, count, recs) ==
    IF count = 0 THEN Some(recs)
    ELSE IF Len(bytes) < 16 THEN None
    ELSE LET id  == U64FromLeBytes(SubSeq(bytes, 1, 8))
             len == U64FromLeBytes(SubSeq(bytes, 9, 16))
         IN  IF Len(bytes) < 16 + len THEN None
             ELSE bincode_deserialize_records(
                      SubSeq(bytes, 17 + len, Len(bytes)), count - 1,
                      Append(recs, Record_new(id, SubSeq(bytes, 17, 16 + len))))

bincode_deserialize(bytes) ==
    IF Len(bytes) < 8 THEN None
    ELSE bincode_deserialize_records(SubSeq(bytes, 9, Len(bytes)),
                                     U64FromLeBytes(SubSeq(bytes, 1, 8)), <<>>)

\* ensure_loaded that marks the SSTable loaded and does not read its file.
EnsureLoadedWithoutRead(w, s) == [s EXCEPT !.is_loaded = TRUE]

\* SSTable::ensure_loaded: reads the file on the first access.
SSTable_ensure_loaded(w, s) ==
    IF s.is_loaded THEN s
    ELSE [s EXCEPT !.block = w.files[s.path].recs, !.is_loaded = TRUE]

\* The records an access to the SSTable sees.
SSTable_get_all(w, s) == SSTable_ensure_loaded(w, s).block

\* SSTable::get: the possible outcomes of the binary search.
SSTable_get(w, s, id) == BinarySearchOutcomes(SSTable_get_all(w, s), id)

\* The loop of SSTable::get_range over the records: a record in the range is
\* pushed, a record above end_id ends the loop, a record below start_id is
\* passed over.
RECURSIVE GetRangeLoop(_, _, _, _)
GetRangeLoop(recs, start_id, end_id, result) ==
    IF Len(recs) = 0 THEN result
    ELSE IF recs[1].id >= start_id /\ recs[1].id <= end_id
         THEN GetRangeLoop(Tail(recs), start_id, end_id, Append(result, recs[1]))
    ELSE IF recs[1].id > end_id THEN result
    ELSE GetRangeLoop(Tail(recs), start_id, end_id, result)

\* get_range whose loop ends at the first record outside the range.
GetRangeUntilMiss(w, s, start_id, end_id) ==
    LET recs == SSTable_get_all(w, s)
        n    == Cardinality({k \in 1..Len(recs) :
                    \A j \in 1..k : recs[j].id >= start_id /\ recs[j].id <= end_id})
    IN  SubSeq(recs, 1, n)

\* SSTable::get_range
SSTable_get_range(w, s, start_id, end_id) ==
    GetRangeLoop(SSTable_get_all(w, s), start_id, end_id, <<>>)

\* SSTable::size
SSTable_size(w, s) == Len(SSTable_ensure_loaded(w, s).block)

\* The records SSTable::merge_with hands to create_from_block: self's records,
\* then other's, stably sorted by id, deduplicated by dedup_by_key.
MergedRecords(self_recs, other_recs) ==
    CopyBlock(DedupById(SortById(self_recs \o other_recs)), <<>>)

SSTable_merge_with(w, self, other, output_path) ==
    SSTable_create_from_block(
        w, MergedRecords(SSTable_get_all(w, self), SSTable_get_all(w, other)),
        output_path)

\* ------------------------------------------------------------- LSMEngine
\* LSMEngine::compact_sstables: pops the last SSTable (sstable1), then the one
\* before it (sstable2), pushes sstable1.merge_with(sstable2) at the tail and
\* removes the two input files.
LSMEngine_compact_sstables(w) ==
    IF Len(w.ssts) < 2 THEN w
    ELSE LET n        == Len(w.ssts)
             sstable1 == w.ssts[n]
             sstable2 == w.ssts[n - 1]
             m        == SSTable_merge_with(w, sstable1, sstable2, w.next)
             gone     == {sstable1.path, sstable2.path}
         IN  [m.w EXCEPT
                 !.ssts  = Append(SubSeq(w.ssts, 1, n - 2), m.sst),
                 !.next  = w.next + 1,
                 !.files = [k \in (DOMAIN m.w.files) \ gone |-> m.w.files[k]]]

\* Mutant of the rollover: the new SSTable is pushed at the tail of the list.
RolloverPushBack(w) ==
    LET c == SSTable_create_from_block(w, MemTable_flush_to_block(w.mem), w.next)
    IN  [c.w EXCEPT !.mem  = <<>>,
                    !.ssts = Append(w.ssts, c.sst),
                    !.next = w.next + 1]

\* LSMEngine::flush_memtable up to and including SSTable::create_from_block and
\* the push to the front of the list: the file is written, write.log is untouched.
RolloverWriteSst(w) ==
    LET c == SSTable_create_from_block(w, MemTable_flush_to_block(w.mem), w.next)
    IN  [c.w EXCEPT !.mem  = <<>>,
                    !.ssts = <<c.sst>> \o w.ssts,
                    !.next = w.next + 1]

\* ... and up to and including WriteLog::clear, before the compaction test.
RolloverNoCompaction(w) == [RolloverWriteSst(w) EXCEPT !.wal = <<>>]

\* Mutant of flush_memtable: no compaction.
FlushWithoutCompaction(w) ==
    IF Len(w.mem) = 0 THEN w ELSE RolloverNoCompaction(w)

\* flush_memtable that compacts when the list is longer than five.
FlushCompactingLate(w) ==
    IF Len(w.mem) = 0 THEN w
    ELSE LET r == RolloverNoCompaction(w)
         IN  IF Len(r.ssts) > CompactionThreshold + 1
             THEN LSMEngine_compact_sstables(r)
             ELSE r

\* flush_memtable without the early return on an empty memtable.
FlushEvenWhenEmpty(w) ==
    LET r == RolloverNoCompaction(w)
    IN  IF Len(r.ssts) > CompactionThreshold
        THEN LSMEngine_compact_sstables(r)
        ELSE r

LSMEngine_flush_memtable(w) ==
    IF Len(w.mem) = 0 THEN w
    ELSE LET r == RolloverNoCompaction(w)
         IN  IF Len(r.ssts) > CompactionThreshold
             THEN LSMEngine_compact_sstables(r)
             ELSE r

\* The memtable insert with rollover that insert, update and replay share:
\* MemTable::insert, and when it refuses, flush_memtable and a second insert.
\* The insert that gives up on a full memtable.
InsertWithoutRollover(w, r) == MemTable_insert(w, r)

InsertOrRollover(w, r) ==
    LET a == MemTable_insert(w, r)
    IN  IF a.ok THEN a
        ELSE MemTable_insert(LSMEngine_flush_memtable(w), r)

\* LSMEngine::insert: [w, ret], ret "Ok" or "Err".
LSMEngine_insert(w, r) ==
    LET logged == [w EXCEPT !.wal = Append(w.wal, InsertLine(r))]
        a      == InsertOrRollover(logged, r)
    IN  [w |-> a.w, ret |-> IF a.ok THEN "Ok" ELSE "Err"]

\* Mutant of update: an id the memtable does not hold is not inserted.
UpdateInPlaceOnly(w, id, new_data) ==
    LET logged == [w EXCEPT !.wal = Append(w.wal, UpdateLine(id, new_data))]
    IN  [w |-> MemTable_update(logged, id, new_data).w, ret |-> "Ok(true)"]

\* LSMEngine::update: [w, ret], ret "Ok(true)" or "Err".
\* The update that always inserts a new version of the record.
UpdateByInsert(w, id, new_data) ==
    LET logged == [w EXCEPT !.wal = Append(w.wal, UpdateLine(id, new_data))]
        a      == InsertOrRollover(logged, Record_new(id, new_data))
    IN  [w |-> a.w, ret |-> IF a.ok THEN "Ok(true)" ELSE "Err"]

LSMEngine_update(w, id, new_data) ==
    LET logged == [w EXCEPT !.wal = Append(w.wal, UpdateLine(id, new_data))]
        u      == MemTable_update(logged, id, new_data)
        a      == InsertOrRollover(logged, Record_new(id, new_data))
    IN  IF u.ok THEN [w |-> u.w, ret |-> "Ok(true)"]
        ELSE [w |-> a.w, ret |-> IF a.ok THEN "Ok(true)" ELSE "Err"]

\* Mutant of delete: the DELETE line is logged only when a record is removed.
DeleteLogsOnRemoval(w, id) ==
    LET d == MemTable_delete(w, id)
    IN  IF d.ok
        THEN [w |-> [d.w EXCEPT !.wal = Append(w.wal, DeleteLine(id))], ret |-> "Ok(true)"]
        ELSE [w |-> w, ret |-> "Ok(false)"]

\* LSMEngine::delete: [w, ret], ret "Ok(true)" or "Ok(false)".
LSMEngine_delete(w, id) ==
    LET logged == [w EXCEPT !.wal = Append(w.wal, DeleteLine(id))]
        d      == MemTable_delete(logged, id)
    IN  [w |-> d.w, ret |-> IF d.ok THEN "Ok(true)" ELSE "Ok(false)"]

\* A log_insert, log_update or log_delete that returns an error: write.log is
\* left as it was, or with the line cut short, or with the whole line less its
\* newline.
WriteLog_failed_append(w, line) ==
    {[w EXCEPT !.wal = l] :
        l \in {w.wal,
               Append(w.wal, SubSeq(line, 1, Len(line) - 1)),
               Append(w.wal, line)}}

\* Mutant of the failing insert: the memtable is written before the log.
InsertBeforeLog(w, r) ==
    {[w |-> f, ret |-> "Err"] :
        f \in WriteLog_failed_append(MemTable_insert(w, r).w, InsertLine(r))}

\* LSMEngine::insert, update and delete when the WAL append fails: the
\* outcomes [w, ret] of the `?` on the first statement.
LSMEngine_insert_failing(w, r) ==
    {[w |-> f, ret |-> "Err"] : f \in WriteLog_failed_append(w, InsertLine(r))}

LSMEngine_update_failing(w, id, new_data) ==
    {[w |-> f, ret |-> "Err"] :
        f \in WriteLog_failed_append(w, UpdateLine(id, new_data))}

LSMEngine_delete_failing(w, id) ==
    {[w |-> f, ret |-> "Err"] : f \in WriteLog_failed_append(w, DeleteLine(id))}

\* LSMEngine::flush
LSMEngine_flush(w) == LSMEngine_flush_memtable(w)

\* LSMEngine::get: the possible outcomes. The memtable first, then the SSTables
\* in list order; the first SSTable that holds the id answers.
RECURSIVE GetFromSsts(_, _, _)
GetFromSsts(w, ssts, id) ==
    IF Len(ssts) = 0 THEN {None}
    ELSE IF SSTable_get(w, ssts[1], id) # {None} THEN SSTable_get(w, ssts[1], id)
    ELSE GetFromSsts(w, Tail(ssts), id)

LSMEngine_get(w, id) ==
    IF Block_get(w.mem, id) # None THEN {Block_get(w.mem, id)}
    ELSE GetFromSsts(w, w.ssts, id)

\* The SSTable list after LSMEngine::get(id): the SSTables it reached are loaded.
RECURSIVE LoadUntilHit(_, _, _)
LoadUntilHit(w, ssts, id) ==
    IF Len(ssts) = 0 THEN <<>>
    ELSE IF SSTable_get(w, ssts[1], id) # {None}
         THEN <<SSTable_ensure_loaded(w, ssts[1])>> \o Tail(ssts)
         ELSE <<SSTable_ensure_loaded(w, ssts[1])>> \o LoadUntilHit(w, Tail(ssts), id)

SstsAfterGet(w, id) ==
    IF Block_get(w.mem, id) # None THEN w.ssts ELSE LoadUntilHit(w, w.ssts, id)

\* HashMap::insert for each record of a sequence, in order: id |-> record.
RECURSIVE MapInsertAll(_, _)
MapInsertAll(map, recs) ==
    IF Len(recs) = 0 THEN map
    ELSE MapInsertAll((recs[1].id :> recs[1]) @@ map, Tail(recs))

\* The SSTables from the tail of the list to its front, each one's records.
RECURSIVE MapFromSsts(_, _, _)
MapFromSsts(w, ssts, map) ==
    IF Len(ssts) = 0 THEN map
    ELSE MapFromSsts(w, SubSeq(ssts, 1, Len(ssts) - 1),
                     MapInsertAll(map, SSTable_get_all(w, ssts[Len(ssts)])))

\* The values of a map as a sequence ascending by key.
RECURSIVE ValuesByKey(_)
ValuesByKey(map) ==
    IF DOMAIN map = {} THEN <<>>
    ELSE LET k == CHOOSE k \in DOMAIN map : \A j \in DOMAIN map : k <= j
         IN  <<map[k]>> \o ValuesByKey([j \in (DOMAIN map) \ {k} |-> map[j]])

\* MemTable::get_sorted_records
MemTable_get_sorted_records(recs) == SortById(recs)

\* Every SSTable's records, the tail of the list first.
RECURSIVE RecordsOfSsts(_, _)
RecordsOfSsts(w, ssts) ==
    IF Len(ssts) = 0 THEN <<>>
    ELSE SSTable_get_all(w, ssts[Len(ssts)])
         \o RecordsOfSsts(w, SubSeq(ssts, 1, Len(ssts) - 1))

\* Mutant of get_all_records: the records are collected in a Vec, not in a map
\* keyed by id, and sorted.
GetAllRecordsAsVec(w) ==
    SortById(RecordsOfSsts(w, w.ssts) \o MemTable_get_sorted_records(w.mem))

\* LSMEngine::get_all_records
LSMEngine_get_all_records(w) ==
    ValuesByKey(MapInsertAll(MapFromSsts(w, w.ssts, <<>>),
                             MemTable_get_sorted_records(w.mem)))

\* ------------------------------------------------------------- recovery
\* sstable_files.sort_by(mtime, newer first), as the sequence of file numbers.
RECURSIVE SortByMtimeDesc(_, _)
SortByMtimeDesc(files, names) ==
    IF names = {} THEN <<>>
    ELSE LET n == CHOOSE n \in names :
                      \A k \in names : files[k].mtime <= files[n].mtime
         IN  <<n>> \o SortByMtimeDesc(files, names \ {n})

\* The loop of load_existing_sstables over the sorted paths: a lazy SSTable per
\* file, and next_sstable_id = max(next_sstable_id, n + 1).
RECURSIVE LoadPaths(_, _)
LoadPaths(w, paths) ==
    IF Len(paths) = 0 THEN w
    ELSE LoadPaths([w EXCEPT
                       !.ssts = Append(w.ssts, SSTable_new_lazy(paths[1])),
                       !.next = IF paths[1] + 1 > w.next THEN paths[1] + 1 ELSE w.next],
                   Tail(paths))

\* Mutant of load_existing_sstables: next_sstable_id is the number of files
\* found plus one.
LoadCountingFiles(w) ==
    [LoadPaths(w, SortByMtimeDesc(w.files, DOMAIN w.files))
        EXCEPT !.next = Cardinality(DOMAIN w.files) + 1]

LSMEngine_load_existing_sstables(w) ==
    LoadPaths(w, SortByMtimeDesc(w.files, DOMAIN w.files))

\* One entry of LSMEngine::replay_write_log.
ReplayEntry(w, e) ==
    IF e.op = "Insert" THEN InsertOrRollover(w, Record_new(e.id, e.data)).w
    ELSE IF e.op = "Update" THEN
        LET upd == MemTable_update(w, e.id, e.data)
        IN  IF upd.ok THEN upd.w
            ELSE InsertOrRollover(w, Record_new(e.id, e.data)).w
    ELSE MemTable_delete(w, e.id).w

RECURSIVE ReplayEntries(_, _)
ReplayEntries(w, entries) ==
    IF Len(entries) = 0 THEN w
    ELSE ReplayEntries(ReplayEntry(w, entries[1]), Tail(entries))

\* LSMEngine::replay_write_log: the entries are read once, before any is applied.
LSMEngine_replay_write_log(w) == ReplayEntries(w, WriteLog_replay(w.wal))

\* LSMEngine::new on the directory of world d (its wal, files and clock) with
\* memtable bound d.max_size: whatever engine d held is dropped.
LSMEngine_new(d) ==
    LSMEngine_replay_write_log(
        LSMEngine_load_existing_sstables(
            [d EXCEPT !.mem = <<>>, !.ssts = <<>>, !.next = FirstSstId]))

\* ------------------------------------------------------------- QueryEngine
\* The catalog of query/engine.rs.  A catalog c is
\*   tables          QueryEngine.tables: name |-> the table's columns
\*   storage_engines QueryEngine.storage_engines: name |-> the rows its engine holds
\*   manifest        Option of the content of <data_dir>/tables.json: the
\*                   (name, table) members of the JSON object, in file order
\*   dirs            the <data_dir>/<name> directories: name |-> the rows stored
\*   torn            tables.json was left partly written by a write that failed
\* and, as history, created (the names created and not dropped since),
\* dropped (the names ever dropped), rejected (the errors CREATE TABLE and
\* DROP TABLE have returned) and ret (the last statement's result).
TableNames == {"t", "u"}
Schemas ==
    {<<[data_type |-> "Integer", max_len |-> 0]>>,
     <<[data_type |-> "Integer", max_len |-> 0], [data_type |-> "Varchar", max_len |-> 2]>>}

Put(f, k, v) == [n \in DOMAIN f \cup {k} |-> IF n = k THEN v ELSE f[n]]
Remove(f, k) == [n \in DOMAIN f \ {k} |-> f[n]]

EmptyCatalog ==
    [tables |-> <<>>, storage_engines |-> <<>>, manifest |-> None, dirs |-> <<>>,
     torn |-> FALSE, created |-> {}, dropped |-> {}, rejected |-> {}, ret |-> "New"]

\* serde_json::to_string_pretty(&self.tables): the members of the object in
\* the HashMap's iteration order, which is any order.
RECURSIVE Orderings(_)
Orderings(S) ==
    IF S = {} THEN {<<>>}
    ELSE UNION {{<<x>> \o o : o \in Orderings(S \ {x})} : x \in S}

serde_json_to_string(tables) ==
    Orderings({[name |-> n, table |-> tables[n]] : n \in DOMAIN tables})

\* serde_json::from_str::<HashMap<String, Table>>: the members are inserted in
\* file order.
RECURSIVE serde_json_from_str(_)
serde_json_from_str(j) ==
    IF Len(j) = 0 THEN <<>>
    ELSE Put(serde_json_from_str(SubSeq(j, 1, Len(j) - 1)),
             j[Len(j)].name, j[Len(j)].table)

\* QueryEngine::save_table_metadata: rewrites tables.json from self.tables.
QueryEngine_save_table_metadata(c) ==
    {[c EXCEPT !.manifest = Some(j), !.torn = FALSE] : j \in serde_json_to_string(c.tables)}

\* QueryEngine::save_table_metadata when fs::write fails: tables.json is left
\* as it was or partly written.
SaveFailures(c) == {c, [c EXCEPT !.torn = TRUE]}

\* LSMEngine::new("<data_dir>/<name>", 100) as the catalog sees it: the
\* directory is created when missing and the engine holds what it stores.
OpenTableEngine(c, name) ==
    LET rows == IF name \in DOMAIN c.dirs THEN c.dirs[name] ELSE 0
    IN  [c EXCEPT !.dirs = Put(c.dirs, name, rows),
                  !.storage_engines = Put(c.storage_engines, name, rows)]

\* execute_create without the test for an existing table.
CreateReplacing(c, name, columns) ==
    LET opened == OpenTableEngine(c, name)
        added  == [opened EXCEPT !.tables = Put(c.tables, name, columns)]
    IN  {[c |-> s, ret |-> "CreateTable"] :
            s \in QueryEngine_save_table_metadata(added)}

\* execute_drop that leaves the table's engine in storage_engines.
DropKeepingEngine(c, name) ==
    IF name \notin DOMAIN c.tables
    THEN {[c |-> c, ret |-> "TableNotFound"]}
    ELSE {[c |-> s, ret |-> "DropTable"] :
             s \in QueryEngine_save_table_metadata(
                       [c EXCEPT !.tables = Remove(c.tables, name)])}

\* execute_drop without the rewrite of tables.json.
DropKeepingManifest(c, name) ==
    IF name \notin DOMAIN c.tables
    THEN {[c |-> c, ret |-> "TableNotFound"]}
    ELSE {[c |-> [c EXCEPT !.tables = Remove(c.tables, name),
                           !.storage_engines = Remove(c.storage_engines, name),
                           !.dirs = Remove(c.dirs, name)],
           ret |-> "DropTable"]}

\* QueryEngine::execute_create: the outcomes [c, ret].
QueryEngine_execute_create(c, name, columns) ==
    IF name \in DOMAIN c.tables
    THEN {[c |-> c, ret |-> "DuplicateKey"]}
    ELSE LET opened == OpenTableEngine(c, name)
             added  == [opened EXCEPT !.tables = Put(c.tables, name, columns)]
         IN  {[c |-> s, ret |-> "CreateTable"] :
                 s \in QueryEngine_save_table_metadata(added)}

\* QueryEngine::execute_drop: the outcomes [c, ret]; remove_dir_all is best
\* effort, its failure only a warning.
QueryEngine_execute_drop(c, name) ==
    IF name \notin DOMAIN c.tables
    THEN {[c |-> c, ret |-> "TableNotFound"]}
    ELSE LET removed == [c EXCEPT !.tables = Remove(c.tables, name),
                                  !.storage_engines = Remove(c.storage_engines, name)]
         IN  {[c |-> s, ret |-> "DropTable"] :
                 s \in UNION {QueryEngine_save_table_metadata([removed EXCEPT !.dirs = d]) :
                                 d \in {Remove(c.dirs, name), c.dirs}}}

\* QueryEngine::load_existing_tables: every table of the manifest with its
\* engine; nothing when tables.json does not exist.
RECURSIVE LoadTables(_, _)
LoadTables(c, loaded) ==
    IF DOMAIN loaded = {} THEN c
    ELSE LET name   == CHOOSE n \in DOMAIN loaded : TRUE
             opened == OpenTableEngine(c, name)
         IN  LoadTables([opened EXCEPT !.tables = Put(c.tables, name, loaded[name])],
                        Remove(loaded, name))

QueryEngine_load_existing_tables(c) ==
    IF c.manifest = None \/ c.torn THEN c
    ELSE LoadTables(c, serde_json_from_str(c.manifest[1]))

\* QueryEngine::execute_create when LSMEngine::new fails, with the table
\* directory created or not, or when save_table_metadata fails, after the
\* table and its engine were inserted: the outcomes [c, ret].
CreateFailures(c, name, columns) ==
    IF name \in DOMAIN c.tables THEN {}
    ELSE LET opened == OpenTableEngine(c, name)
             added  == [opened EXCEPT !.tables = Put(c.tables, name, columns)]
         IN  {[c |-> s, ret |-> "InternalError"] :
                 s \in {c, [c EXCEPT !.dirs = opened.dirs]} \cup SaveFailures(added)}

\* QueryEngine::execute_drop when save_table_metadata fails, after the table
\* and its engine were removed: the outcomes [c, ret].
DropFailures(c, name) ==
    IF name \notin DOMAIN c.tables THEN {}
    ELSE LET removed == [c EXCEPT !.tables = Remove(c.tables, name),
                                  !.storage_engines = Remove(c.storage_engines, name)]
         IN  {[c |-> s, ret |-> "InternalError"] :
                 s \in UNION {SaveFailures([removed EXCEPT !.dirs = d]) :
                                 d \in {Remove(c.dirs, name), c.dirs}}}

\* QueryEngine::load_existing_tables when tables.json cannot be read, and
\* when LSMEngine::new fails for some of the tables of the manifest, which are
\* then skipped.
LoadFailures(c) ==
    IF c.manifest = None /\ ~c.torn THEN {}
    ELSE {c} \cup
         (IF c.torn THEN {}
          ELSE LET loaded == serde_json_from_str(c.manifest[1])
               IN  {LoadTables(c, [n \in ok |-> loaded[n]]) :
                       ok \in (SUBSET DOMAIN loaded) \ {DOMAIN loaded}})

\* QueryEngine::new_with_data_dir on the data directory of c: whatever
\* engine c held is dropped.
QueryEngine_new_with_data_dir(c) ==
    QueryEngine_load_existing_tables(
        [c EXCEPT !.tables = <<>>, !.storage_engines = <<>>])

\* QueryEngine::list_tables
QueryEngine_list_tables(c) == DOMAIN c.tables

\* QueryEngine::execute_select, as far as the catalog decides its result.
QueryEngine_execute_select(c, name) ==
    IF name \notin DOMAIN c.tables THEN "TableNotFound"
    ELSE IF name \notin DOMAIN c.storage_engines THEN "TableNotFound"
    ELSE "Select"

\* QueryEngine::execute_insert of one row, as far as the catalog is concerned:
\* the table's engine stores one more row.
QueryEngine_execute_insert(c, name) ==
    IF name \notin DOMAIN c.tables THEN [c |-> c, ret |-> "TableNotFound"]
    ELSE IF name \notin DOMAIN c.storage_engines THEN [c |-> c, ret |-> "TableNotFound"]
    ELSE [c |-> [c EXCEPT !.storage_engines[name] = @ + 1, !.dirs[name] = @ + 1],
          ret |-> "Insert"]

\* ------------------------------------------------------------- row codec
\* A str is a sequence of characters, a character a one-character string.
\* A Column is [data_type, max_len]; max_len is 0 but for a Varchar.
UpperCase == <<"A", "B", "C", "D", "E", "F", "G", "H", "I", "J", "K", "L", "M",
               "N", "O", "P", "Q", "R", "S", "T", "U", "V", "W", "X", "Y", "Z">>
LowerCase == <<"a", "b", "c", "d", "e", "f", "g", "h", "i", "j", "k", "l", "m",
               "n", "o", "p", "q", "r", "s", "t", "u", "v", "w", "x", "y", "z">>
DigitChars == <<"0", "1", "2", "3", "4", "5", "6", "7", "8", "9">>
\* A character outside ASCII is named by its code point.
EAcute == "U+00E9"
Replacement == "U+FFFD"

IndexOf(s, x) == CHOOSE i \in 1..Len(s) : s[i] = x
Has(s, x) == \E i \in 1..Len(s) : s[i] = x

\* The UTF-8 bytes of a character.
Utf8(ch) ==
    IF Has(UpperCase, ch) THEN <<64 + IndexOf(UpperCase, ch)>>
    ELSE IF Has(LowerCase, ch) THEN <<96 + IndexOf(LowerCase, ch)>>
    ELSE IF Has(DigitChars, ch) THEN <<47 + IndexOf(DigitChars, ch)>>
    ELSE IF ch = "'" THEN <<39>>
    ELSE IF ch = "\"" THEN <<34>>
    ELSE IF ch = "+" THEN <<43>>
    ELSE IF ch = "-" THEN <<45>>
    ELSE IF ch = EAcute THEN <<195, 169>>
    ELSE <<239, 191, 189>>

\* str::as_bytes
RECURSIVE as_bytes(_)
as_bytes(s) == IF Len(s) = 0 THEN <<>> ELSE Utf8(s[1]) \o as_bytes(Tail(s))

\* str::len: the length in bytes.
str_len(s) == Len(as_bytes(s))

\* String::from_utf8_lossy: a byte that starts no character of the alphabet
\* decodes to U+FFFD.
RECURSIVE from_utf8_lossy(_)
from_utf8_lossy(b) ==
    IF Len(b) = 0 THEN <<>>
    ELSE IF b[1] \in 65..90 THEN <<UpperCase[b[1] - 64]>> \o from_utf8_lossy(Tail(b))
    ELSE IF b[1] \in 97..122 THEN <<LowerCase[b[1] - 96]>> \o from_utf8_lossy(Tail(b))
    ELSE IF b[1] \in 48..57 THEN <<DigitChars[b[1] - 47]>> \o from_utf8_lossy(Tail(b))
    ELSE IF b[1] = 39 THEN <<"'">> \o from_utf8_lossy(Tail(b))
    ELSE IF b[1] = 34 THEN <<"\"">> \o from_utf8_lossy(Tail(b))
    ELSE IF b[1] = 43 THEN <<"+">> \o from_utf8_lossy(Tail(b))
    ELSE IF b[1] = 45 THEN <<"-">> \o from_utf8_lossy(Tail(b))
    ELSE IF Len(b) >= 2 /\ b[1] = 195 /\ b[2] = 169
         THEN <<EAcute>> \o from_utf8_lossy(SubSeq(b, 3, Len(b)))
    ELSE <<Replacement>> \o from_utf8_lossy(Tail(b))

\* str::to_lowercase
to_lowercase(s) ==
    [i \in 1..Len(s) |->
        IF Has(UpperCase, s[i]) THEN LowerCase[IndexOf(UpperCase, s[i])] ELSE s[i]]

\* str::trim_matches(|c| c == '\'' || c == '"'): every leading and trailing
\* quote character is removed.
IsQuote(ch) == ch = "'" \/ ch = "\""

RECURSIVE trim_matches(_)
trim_matches(s) ==
    IF Len(s) = 0 THEN s
    ELSE IF IsQuote(s[1]) THEN trim_matches(Tail(s))
    ELSE IF IsQuote(s[Len(s)]) THEN trim_matches(SubSeq(s, 1, Len(s) - 1))
    ELSE s

\* str::parse::<i64>: Option<i64>; an optional sign, then one or more digits.
ParseI64(s) ==
    LET signed == Len(s) > 0 /\ s[1] \in {"+", "-"}
        digits == IF signed THEN Tail(s) ELSE s
    IN  IF Len(digits) = 0 \/ \E i \in 1..Len(digits) : ~Has(DigitChars, digits[i])
        THEN None
        ELSE LET n == ParseDigits([i \in 1..Len(digits) |->
                                      IndexOf(DigitChars, digits[i]) - 1], 0)[1]
             IN  Some(IF signed /\ s[1] = "-" THEN 0 - n ELSE n)

\* i64::to_string
I64ToString(n) ==
    LET digits == FormatU64(IF n < 0 THEN 0 - n ELSE n)
        text   == [i \in 1..Len(digits) |-> DigitChars[digits[i] + 1]]
    IN  IF n < 0 THEN <<"-">> \o text ELSE text

\* The width big-endian bytes of n >= 0.
RECURSIVE BeBytes(_, _)
BeBytes(n, width) ==
    IF width = 0 THEN <<>> ELSE Append(BeBytes(n \div 256, width - 1), n % 256)

RECURSIVE BeValue(_)
BeValue(b) ==
    IF Len(b) = 0 THEN 0 ELSE BeValue(SubSeq(b, 1, Len(b) - 1)) * 256 + b[Len(b)]

\* i64::to_be_bytes: two's complement, so the bytes of a negative n are the
\* complements of the bytes of -n - 1.
I64ToBeBytes(n) ==
    IF n >= 0 THEN BeBytes(n, 8)
    ELSE LET b == BeBytes(0 - n - 1, 8) IN [i \in 1..8 |-> 255 - b[i]]

\* i64::from_be_bytes
I64FromBeBytes(b) ==
    IF b[1] < 128 THEN BeValue(b)
    ELSE 0 - BeValue([i \in 1..8 |-> 255 - b[i]]) - 1

\* Column::validate_value
Column_validate_value(column, value) ==
    CASE column.data_type \in {"Integer", "Timestamp"} -> ParseI64(value) # None
      [] column.data_type = "Varchar" -> str_len(trim_matches(value)) <= column.max_len
      [] column.data_type = "Boolean" ->
             to_lowercase(trim_matches(value)) \in {<<"t", "r", "u", "e">>,
                                                    <<"f", "a", "l", "s", "e">>}

\* convert_value_to_bytes without the removal of the quotes of a varchar.
ConvertKeepingQuotes(value, column) ==
    CASE column.data_type \in {"Integer", "Timestamp"} ->
             IF ParseI64(value) = None THEN None
             ELSE Some(I64ToBeBytes(ParseI64(value)[1]))
      [] column.data_type = "Varchar" ->
             IF str_len(value) > column.max_len + 2 THEN None
             ELSE Some(BeBytes(str_len(value), 4) \o as_bytes(value))
      [] column.data_type = "Boolean" ->
             LET cleaned_value == to_lowercase(trim_matches(value))
             IN  IF cleaned_value = <<"t", "r", "u", "e">> THEN Some(<<1>>)
                 ELSE IF cleaned_value = <<"f", "a", "l", "s", "e">> THEN Some(<<0>>)
                 ELSE None

\* InsertParser::convert_value_to_bytes: Option of the bytes (None for Err).
InsertParser_convert_value_to_bytes(value, column) ==
    CASE column.data_type \in {"Integer", "Timestamp"} ->
             IF ParseI64(value) = None THEN None
             ELSE Some(I64ToBeBytes(ParseI64(value)[1]))
      [] column.data_type = "Varchar" ->
             LET cleaned_value == trim_matches(value)
             IN  IF str_len(cleaned_value) > column.max_len THEN None
                 ELSE Some(BeBytes(str_len(cleaned_value), 4) \o as_bytes(cleaned_value))
      [] column.data_type = "Boolean" ->
             LET cleaned_value == to_lowercase(trim_matches(value))
             IN  IF cleaned_value = <<"t", "r", "u", "e">> THEN Some(<<1>>)
                 ELSE IF cleaned_value = <<"f", "a", "l", "s", "e">> THEN Some(<<0>>)
                 ELSE None

\* UpdateParser::parse_value: the same conversion, written a second time.
UpdateParser_parse_value(value, column) ==
    CASE column.data_type \in {"Integer", "Timestamp"} ->
             LET num == ParseI64(value)
             IN  IF num = None THEN None ELSE Some(I64ToBeBytes(num[1]))
      [] column.data_type = "Varchar" ->
             LET cleaned_value == trim_matches(value)
             IN  IF str_len(cleaned_value) > column.max_len THEN None
                 ELSE Some(BeBytes(str_len(cleaned_value), 4) \o as_bytes(cleaned_value))
      [] column.data_type = "Boolean" ->
             LET cleaned_value == to_lowercase(trim_matches(value))
             IN  IF cleaned_value \notin {<<"t", "r", "u", "e">>, <<"f", "a", "l", "s", "e">>}
                 THEN None
                 ELSE Some(<<IF cleaned_value = <<"t", "r", "u", "e">> THEN 1 ELSE 0>>)

\* InsertParser::parse_and_execute_lsm, the payload of one row: every value is
\* validated and converted in column order; Option of the record data.
RECURSIVE InsertParser_record_data(_, _)
InsertParser_record_data(columns, values) ==
    IF Len(columns) = 0 THEN Some(<<>>)
    ELSE IF ~Column_validate_value(columns[1], values[1]) THEN None
    ELSE LET value_bytes == InsertParser_convert_value_to_bytes(values[1], columns[1])
             rest        == InsertParser_record_data(Tail(columns), Tail(values))
         IN  IF value_bytes = None \/ rest = None THEN None
             ELSE Some(value_bytes[1] \o rest[1])

\* parse_record_data that leaves the offset where it is when the data is too
\* short for a field.
RECURSIVE ParseWithoutAdvance(_, _, _)
ParseWithoutAdvance(data, columns, offset) ==
    IF Len(columns) = 0 THEN <<>>
    ELSE
      LET col == columns[1]
          Bytes(n) == SubSeq(data, offset + 1, offset + n)
      IN  CASE col.data_type \in {"Integer", "Timestamp"} ->
                   IF offset + 8 <= Len(data)
                   THEN <<I64ToString(I64FromBeBytes(Bytes(8)))>>
                        \o ParseWithoutAdvance(data, Tail(columns), offset + 8)
                   ELSE <<<<"0">>>> \o ParseWithoutAdvance(data, Tail(columns), offset)
            [] col.data_type = "Varchar" ->
                   IF offset + 4 <= Len(data) /\ offset + 4 + BeValue(Bytes(4)) <= Len(data)
                   THEN <<from_utf8_lossy(SubSeq(data, offset + 5,
                                                 offset + 4 + BeValue(Bytes(4))))>>
                        \o ParseWithoutAdvance(data, Tail(columns),
                                               offset + 4 + BeValue(Bytes(4)))
                   ELSE <<<<>>>> \o ParseWithoutAdvance(data, Tail(columns), offset)
            [] col.data_type = "Boolean" ->
                   IF offset < Len(data)
                   THEN <<IF data[offset + 1] = 1
                          THEN <<"t", "r", "u", "e">>
                          ELSE <<"f", "a", "l", "s", "e">> >>
                        \o ParseWithoutAdvance(data, Tail(columns), offset + 1)
                   ELSE <<<<"f", "a", "l", "s", "e">>>>
                        \o ParseWithoutAdvance(data, Tail(columns), offset)

\* SelectParser::parse_record_data from offset (0-based) on: a field the data
\* is too short for decodes to the type's zero value and the offset still
\* advances.
RECURSIVE ParseRecordData(_, _, _)
ParseRecordData(data, columns, offset) ==
    IF Len(columns) = 0 THEN <<>>
    ELSE
      LET col == columns[1]
          Bytes(n) == SubSeq(data, offset + 1, offset + n)
      IN  CASE col.data_type \in {"Integer", "Timestamp"} ->
                   <<IF offset + 8 <= Len(data)
                     THEN I64ToString(I64FromBeBytes(Bytes(8)))
                     ELSE <<"0">> >>
                   \o ParseRecordData(data, Tail(columns), offset + 8)
            [] col.data_type = "Varchar" ->
                   IF offset + 4 <= Len(data)
                   THEN LET length == BeValue(Bytes(4))
                        IN  <<IF offset + 4 + length <= Len(data)
                              THEN from_utf8_lossy(SubSeq(data, offset + 5,
                                                          offset + 4 + length))
                              ELSE <<>> >>
                            \o ParseRecordData(data, Tail(columns), offset + 4 + length)
                   ELSE <<<<>>>> \o ParseRecordData(data, Tail(columns), offset + 4)
            [] col.data_type = "Boolean" ->
                   <<IF offset < Len(data) /\ data[offset + 1] = 1
                     THEN <<"t", "r", "u", "e">>
                     ELSE <<"f", "a", "l", "s", "e">> >>
                   \o ParseRecordData(data, Tail(columns), offset + 1)

SelectParser_parse_record_data(data, columns) == ParseRecordData(data, columns, 0)

\* UpdateParser::build_updated_record_data: the stored payload is decoded, the
\* value of column i replaced by new_value, and every value converted again
\* by parse_value; Option of the new record data.
RECURSIVE ParseValues(_, _)
ParseValues(columns, values) ==
    IF Len(columns) = 0 THEN Some(<<>>)
    ELSE LET value_bytes == UpdateParser_parse_value(values[1], columns[1])
             rest        == ParseValues(Tail(columns), Tail(values))
         IN  IF value_bytes = None \/ rest = None THEN None
             ELSE Some(value_bytes[1] \o rest[1])

UpdateParser_build_updated_record_data(data, columns, i, new_value) ==
    LET row_data == SelectParser_parse_record_data(data, columns)
    IN  ParseValues(columns, [j \in 1..Len(columns) |->
                                 IF j = i THEN new_value ELSE row_data[j]])

IdleCodec == [stage |-> "idle", columns |-> <<>>, values |-> <<>>, data |-> <<>>,
              row |-> <<>>]

\* ------------------------------------------------------------- state
VARIABLES
    max_size,          \* MemTable.max_size, the bound given to LSMEngine::new
    memtable,          \* MemTable.data.records
    writelog,          \* the lines of write.log
    sstables,          \* LSMEngine.sstables
    next_sstable_id,   \* LSMEngine.next_sstable_id
    files,             \* the sstable_<n>.dat files of the directory
    clock,             \* the mtime of the next file write
    last,              \* history: id |-> Option of the payload of the most
                       \* recent successful insert or update of the id
    truncated,         \* history: a rollover forced by a full memtable (in a
                       \* write or in replay) has truncated write.log since
                       \* the memtable was last empty
    history,           \* history: the entries of the successful log_insert,
                       \* log_update and log_delete calls since the last
                       \* WriteLog::clear, in call order (kept in SpecLog);
                       \* in SpecTiming, the rollovers and compactions
    catalog,           \* the QueryEngine and its data directory (SpecCatalog)
    codec              \* a row on its way through the row codec (SpecCodec)

vars == <<max_size, memtable, writelog, sstables, next_sstable_id, files, clock,
          last, truncated, history, catalog, codec>>

World ==
    [max_size |-> max_size, mem |-> memtable, wal |-> writelog, ssts |-> sstables,
     next |-> next_sstable_id, files |-> files, clock |-> clock]

\* A cap is [files, wal]: the model takes no step that would use a file number
\* past cap.files or leave more than cap.wal lines in write.log.
Fits(w, cap) == w.next <= cap.files + 1 /\ Len(w.wal) <= cap.wal

Engine(w) ==
    /\ max_size' = w.max_size
    /\ memtable' = w.mem
    /\ writelog' = w.wal
    /\ sstables' = w.ssts
    /\ next_sstable_id' = w.next
    /\ files' = w.files
    /\ clock' = w.clock

\* The engine goes on as w. A rollover happened when a file number was taken.
Become(w) ==
    /\ Engine(w)
    /\ truncated' = (w.mem # <<>> /\ (truncated \/ w.next > next_sstable_id))

\* A new engine w = LSMEngine::new(d) replaces the old one. Replay rolled over
\* when it took a file number after load_existing_sstables.
Reopen(cap, d) ==
    LET w == LSMEngine_new(d)
    IN  /\ Fits(w, cap)
        /\ Engine(w)
        /\ truncated' = (w.mem # <<>>
                         /\ w.next > LSMEngine_load_existing_sstables(
                                         [d EXCEPT !.ssts = <<>>, !.next = FirstSstId]).next)

\* An empty directory and LSMEngine::new on it.
Init ==
    /\ max_size \in MemtableSizes
    /\ memtable = <<>>
    /\ writelog = <<>>
    /\ sstables = <<>>
    /\ next_sstable_id = FirstSstId
    /\ files = <<>>
    /\ clock = 1
    /\ last = [id \in Ids |-> None]
    /\ truncated = FALSE
    /\ history = <<>>
    /\ catalog = EmptyCatalog
    /\ codec = IdleCodec

\* The history variable: a successful insert or update of id with data.
Wrote(id, data) ==
    last' = [last EXCEPT ![id] = Some(data)] /\ UNCHANGED <<history, catalog, codec>>

Insert(cap, id, data) ==
    LET res == LSMEngine_insert(World, Record_new(id, data))
    IN  res.ret = "Ok" /\ Fits(res.w, cap) /\ Become(res.w)

Update(cap, id, data) ==
    LET res == LSMEngine_update(World, id, data)
    IN  res.ret = "Ok(true)" /\ Fits(res.w, cap) /\ Become(res.w)

Delete(cap, id) ==
    LET res == LSMEngine_delete(World, id)
    IN  Fits(res.w, cap) /\ Become(res.w)

Flush(cap) ==
    LET w == LSMEngine_flush(World)
    IN  Fits(w, cap) /\ Become(w)

\* LSMEngine::get(id): the SSTables it reads are loaded.
Get(id) ==
    /\ sstables' = SstsAfterGet(World, id)
    /\ UNCHANGED <<max_size, memtable, writelog, next_sstable_id, files, clock, truncated>>

\* LSMEngine::get_all_records: every SSTable is loaded.
GetAllRecords ==
    /\ sstables' = [i \in 1..Len(sstables) |-> SSTable_ensure_loaded(World, sstables[i])]
    /\ UNCHANGED <<max_size, memtable, writelog, next_sstable_id, files, clock, truncated>>

\* The engine is dropped and a new one is constructed on the same directory with
\* the same bound.
Restart(cap) == Reopen(cap, World)

\* The world a process leaves when it dies in insert, update or delete right
\* after the line is logged.
DiesAfterLog(w, line) == [w EXCEPT !.wal = Append(w.wal, line)]

\* The world a process leaves when it dies in flush_memtable after the SSTable
\* file is written and before write.log is truncated.
DiesInRollover(w) == RolloverWriteSst(w)

\* The process dies right after logging the line; a new engine is constructed on
\* the directory.
CrashAfterLog(cap, line) ==
    /\ Len(writelog) < cap.wal
    /\ Reopen(cap, DiesAfterLog(World, line))

\* The process dies in the rollover of flush(); a new engine is constructed on
\* the directory.
CrashInFlush(cap) ==
    /\ Len(memtable) > 0
    /\ Reopen(cap, DiesInRollover(World))

\* The process dies in the rollover of an insert, or of an update of an id the
\* memtable does not hold, that found the memtable full.
CrashInWriteRollover(cap, line) ==
    /\ MemTable_is_full(World)
    /\ Reopen(cap, DiesInRollover(DiesAfterLog(World, line)))

SpecCap == [files |-> MaxSstId, wal |-> MaxWal]
WritesCap == [files |-> MaxWritesSstId, wal |-> MaxWal]
CompactionCap == [files |-> MaxCompactionSstId, wal |-> MaxCompactionWal]

WriteLines ==
    {InsertLine(Record_new(id, data)) : id \in Ids, data \in SpecPayloads}
    \cup {UpdateLine(id, data) : id \in Ids, data \in SpecPayloads}

\* ---- Spec: every operation and the crashes, engines of bound 1..MaxMemtableSize,
\* file numbers up to MaxSstId, payloads of SpecPayloads.
Next ==
    \/ \E id \in Ids, data \in SpecPayloads : Insert(SpecCap, id, data) /\ UNCHANGED <<last, history, catalog, codec>>
    \/ \E id \in Ids, data \in SpecPayloads : Update(SpecCap, id, data) /\ UNCHANGED <<last, history, catalog, codec>>
    \/ \E id \in Ids : Delete(SpecCap, id) /\ UNCHANGED <<last, history, catalog, codec>>
    \/ Flush(SpecCap) /\ UNCHANGED <<last, history, catalog, codec>>
    \/ \E id \in Ids : Get(id) /\ UNCHANGED <<last, history, catalog, codec>>
    \/ GetAllRecords /\ UNCHANGED <<last, history, catalog, codec>>
    \/ Restart(SpecCap) /\ UNCHANGED <<last, history, catalog, codec>>
    \/ \E line \in WriteLines \cup {DeleteLine(id) : id \in Ids} :
           CrashAfterLog(SpecCap, line) /\ UNCHANGED <<last, history, catalog, codec>>
    \/ CrashInFlush(SpecCap) /\ UNCHANGED <<last, history, catalog, codec>>
    \/ \E id \in Ids, data \in SpecPayloads :
           /\ Block_get(memtable, id) = None
           /\ CrashInWriteRollover(SpecCap, UpdateLine(id, data))
           /\ UNCHANGED <<last, history, catalog, codec>>
    \/ \E id \in Ids, data \in SpecPayloads :
           CrashInWriteRollover(SpecCap, InsertLine(Record_new(id, data)))
           /\ UNCHANGED <<last, history, catalog, codec>>

Spec == Init /\ [][Next]_vars

\* ---- SpecWrites: insert, update, flush and clean restarts only, with the
\* history of the last successful write of each id.
NextWrites ==
    \/ \E id \in Ids, data \in Payloads : Insert(WritesCap, id, data) /\ Wrote(id, data)
    \/ \E id \in Ids, data \in Payloads : Update(WritesCap, id, data) /\ Wrote(id, data)
    \/ Flush(WritesCap) /\ UNCHANGED <<last, history, catalog, codec>>
    \/ Restart(WritesCap) /\ UNCHANGED <<last, history, catalog, codec>>

SpecWrites == Init /\ [][NextWrites]_vars

\* ---- SpecLive: one engine, never dropped: insert, update and flush.
NextLive ==
    \/ \E id \in Ids, data \in Payloads : Insert(WritesCap, id, data) /\ Wrote(id, data)
    \/ \E id \in Ids, data \in Payloads : Update(WritesCap, id, data) /\ Wrote(id, data)
    \/ Flush(WritesCap) /\ UNCHANGED <<last, history, catalog, codec>>

SpecLive == Init /\ [][NextLive]_vars

\* ---- SpecDistinct: inserts of ids never inserted before, and flushes.
FreshIds == 1..MaxFreshId
DistinctCap == [files |-> MaxFreshId + 1, wal |-> MaxFreshId]

InsertFresh(id, data) ==
    last[id] = None /\ Insert(DistinctCap, id, data) /\ Wrote(id, data)

InitDistinct ==
    /\ max_size \in MemtableSizes
    /\ memtable = <<>>
    /\ writelog = <<>>
    /\ sstables = <<>>
    /\ next_sstable_id = FirstSstId
    /\ files = <<>>
    /\ clock = 1
    /\ last = [id \in FreshIds |-> None]
    /\ truncated = FALSE
    /\ history = <<>>
    /\ catalog = EmptyCatalog
    /\ codec = IdleCodec

NextDistinct ==
    \/ \E id \in FreshIds, data \in Payloads : InsertFresh(id, data)
    \/ Flush(DistinctCap) /\ UNCHANGED <<last, history, catalog, codec>>

SpecDistinct == InitDistinct /\ [][NextDistinct]_vars

\* ---- SpecCompaction: an engine of bound 1 followed through MaxCompactionSstId
\* file numbers, far enough for compactions.
InitCompaction == Init /\ max_size = 1

NextCompaction ==
    \/ \E id \in Ids, data \in Payloads : Insert(CompactionCap, id, data) /\ UNCHANGED <<last, history, catalog, codec>>
    \/ \E id \in Ids, data \in Payloads : Update(CompactionCap, id, data) /\ UNCHANGED <<last, history, catalog, codec>>
    \/ \E id \in Ids : Delete(CompactionCap, id) /\ UNCHANGED <<last, history, catalog, codec>>
    \/ Flush(CompactionCap) /\ UNCHANGED <<last, history, catalog, codec>>
    \/ Restart(CompactionCap) /\ UNCHANGED <<last, history, catalog, codec>>

SpecCompaction == InitCompaction /\ [][NextCompaction]_vars

\* ---- SpecFiles: the numbering of the SSTable files. One id and one payload,
\* engines of bound 1..MaxMemtableSize followed through MaxFilesSstId file
\* numbers with rollovers, compactions, restarts and crashes in between.
FilesCap == [files |-> MaxFilesSstId, wal |-> MaxFilesWal]
FilesRecord == Record_new(1, <<1>>)

\* The world a process leaves when it dies in compact_sstables after merge_with
\* has written the merged file and after `removed` of the two input files are
\* removed (sstable1, the tail of the list, is removed first).
DiesInCompaction(w, removed) ==
    LET n    == Len(w.ssts)
        m    == SSTable_merge_with(w, w.ssts[n], w.ssts[n - 1], w.next).w
        gone == IF removed = 0 THEN {} ELSE {w.ssts[n].path}
    IN  [m EXCEPT !.files = [k \in (DOMAIN m.files) \ gone |-> m.files[k]]]

\* The process dies in the compaction of flush(); a new engine is constructed
\* on the directory.
CrashInCompaction(cap, removed) ==
    /\ Len(memtable) > 0
    /\ Len(RolloverNoCompaction(World).ssts) > CompactionThreshold
    /\ Reopen(cap, DiesInCompaction(RolloverNoCompaction(World), removed))

NextClean ==
    \/ Insert(FilesCap, FilesRecord.id, FilesRecord.data) /\ UNCHANGED <<last, history, catalog, codec>>
    \/ Update(FilesCap, FilesRecord.id, FilesRecord.data) /\ UNCHANGED <<last, history, catalog, codec>>
    \/ Delete(FilesCap, FilesRecord.id) /\ UNCHANGED <<last, history, catalog, codec>>
    \/ Flush(FilesCap) /\ UNCHANGED <<last, history, catalog, codec>>
    \/ Restart(FilesCap) /\ UNCHANGED <<last, history, catalog, codec>>

\* ---- SpecClean: as SpecFiles, with clean restarts only.
SpecClean == Init /\ [][NextClean]_vars

NextFiles ==
    \/ NextClean
    \/ CrashInFlush(FilesCap) /\ UNCHANGED <<last, history, catalog, codec>>
    \/ CrashInWriteRollover(FilesCap, InsertLine(FilesRecord)) /\ UNCHANGED <<last, history, catalog, codec>>
    \/ \E removed \in 0..1 : CrashInCompaction(FilesCap, removed) /\ UNCHANGED <<last, history, catalog, codec>>

SpecFiles == Init /\ [][NextFiles]_vars

\* ---- SpecTiming: as SpecClean, with the history of the rollovers and the
\* compactions since the directory was empty, each with the length of the
\* SSTable list it left, the number of the file it wrote and the files it took
\* off the list.  A rollover adds one SSTable and one to next_sstable_id; a
\* compaction takes one SSTable away and adds one to next_sstable_id.
PathsOf(ssts) == {ssts[i].path : i \in 1..Len(ssts)}

Timed ==
    LET files_made == next_sstable_id' - next_sstable_id
        grown      == Len(sstables') - Len(sstables)
        rollover   == [ev |-> "rollover", len |-> Len(sstables) + 1,
                       path |-> next_sstable_id, removed |-> {}]
        compaction == [ev |-> "compaction", len |-> Len(sstables'),
                       path |-> next_sstable_id + 1,
                       removed |-> (PathsOf(sstables) \cup {next_sstable_id})
                                       \ PathsOf(sstables')]
    IN  history' =
            IF files_made = 0 /\ grown = 0 THEN history
            ELSE IF files_made = 1 /\ grown = 1 THEN Append(history, rollover)
            ELSE IF files_made = 2 /\ grown = 0 THEN history \o <<rollover, compaction>>
            ELSE Append(history, [ev |-> "other", len |-> Len(sstables'),
                                  path |-> next_sstable_id, removed |-> {}])

NextTiming ==
    \/ Insert(FilesCap, FilesRecord.id, FilesRecord.data) /\ Timed /\ UNCHANGED <<last, catalog, codec>>
    \/ Update(FilesCap, FilesRecord.id, FilesRecord.data) /\ Timed /\ UNCHANGED <<last, catalog, codec>>
    \/ Delete(FilesCap, FilesRecord.id) /\ Timed /\ UNCHANGED <<last, catalog, codec>>
    \/ Flush(FilesCap) /\ Timed /\ UNCHANGED <<last, catalog, codec>>
    \/ Restart(FilesCap) /\ Timed /\ UNCHANGED <<last, catalog, codec>>

SpecTiming == Init /\ [][NextTiming]_vars

\* ---- SpecLazy: writes, flushes, reads and clean restarts.  history maps the
\* path of every SSTable file to the block of the SSTable object that created
\* the file and to whether the object now in the list was instantiated lazily
\* and has been read since.
IsLazy(ssts, p) == \E i \in 1..Len(ssts) : ssts[i].path = p /\ ~ssts[i].is_loaded
IsLoaded(ssts, p) == \E i \in 1..Len(ssts) : ssts[i].path = p /\ ssts[i].is_loaded

Made ==
    history' =
        [p \in DOMAIN files' |->
            IF p \in DOMAIN files
            THEN [block |-> history[p].block,
                  read  |-> IsLoaded(sstables', p)
                            /\ (history[p].read \/ IsLazy(sstables, p))]
            ELSE [block |-> sstables'[CHOOSE i \in 1..Len(sstables') :
                                         sstables'[i].path = p].block,
                  read  |-> FALSE]]

NextLazy ==
    \/ \E id \in Ids, data \in SpecPayloads : Insert(SpecCap, id, data) /\ Made /\ UNCHANGED <<last, catalog, codec>>
    \/ \E id \in Ids, data \in SpecPayloads : Update(SpecCap, id, data) /\ Made /\ UNCHANGED <<last, catalog, codec>>
    \/ \E id \in Ids : Delete(SpecCap, id) /\ Made /\ UNCHANGED <<last, catalog, codec>>
    \/ Flush(SpecCap) /\ Made /\ UNCHANGED <<last, catalog, codec>>
    \/ \E id \in Ids : Get(id) /\ Made /\ UNCHANGED <<last, catalog, codec>>
    \/ GetAllRecords /\ Made /\ UNCHANGED <<last, catalog, codec>>
    \/ Restart(SpecCap) /\ Made /\ UNCHANGED <<last, catalog, codec>>

SpecLazy == Init /\ [][NextLazy]_vars

\* ---- SpecIo: the operations, clean restarts and WAL appends that fail.
IoCap == [files |-> MaxIoSstId, wal |-> MaxIoWal]

InsertFails(cap, id, data) ==
    \E res \in LSMEngine_insert_failing(World, Record_new(id, data)) :
        Fits(res.w, cap) /\ Become(res.w)

UpdateFails(cap, id, data) ==
    \E res \in LSMEngine_update_failing(World, id, data) :
        Fits(res.w, cap) /\ Become(res.w)

DeleteFails(cap, id) ==
    \E res \in LSMEngine_delete_failing(World, id) :
        Fits(res.w, cap) /\ Become(res.w)

NextIo ==
    \/ \E id \in Ids, data \in SpecPayloads : Insert(IoCap, id, data) /\ UNCHANGED <<last, history, catalog, codec>>
    \/ \E id \in Ids, data \in SpecPayloads : Update(IoCap, id, data) /\ UNCHANGED <<last, history, catalog, codec>>
    \/ \E id \in Ids : Delete(IoCap, id) /\ UNCHANGED <<last, history, catalog, codec>>
    \/ Flush(IoCap) /\ UNCHANGED <<last, history, catalog, codec>>
    \/ Restart(IoCap) /\ UNCHANGED <<last, history, catalog, codec>>
    \/ \E id \in Ids, data \in SpecPayloads : InsertFails(IoCap, id, data) /\ UNCHANGED <<last, history, catalog, codec>>
    \/ \E id \in Ids, data \in SpecPayloads : UpdateFails(IoCap, id, data) /\ UNCHANGED <<last, history, catalog, codec>>
    \/ \E id \in Ids : DeleteFails(IoCap, id) /\ UNCHANGED <<last, history, catalog, codec>>

SpecIo == Init /\ [][NextIo]_vars

\* ---- SpecLog: the engine's use of write.log, with the history of the entries
\* logged since the last clear. Ids of one and of two digits, payloads of 0 to 3
\* bytes.
LogCap == [files |-> MaxLogSstId, wal |-> MaxLogWal]
LogIds == {1, MaxLogId}
LogPayloads == {<<>>, <<255, 16>>, <<1, 2, 3>>}

\* The call logged entry e; when it went on to roll the memtable over,
\* flush_memtable has cleared the log after that.
Logged(e, w) ==
    history' = IF w.next > next_sstable_id THEN <<>> ELSE Append(history, e)

LogInsert(id, data) ==
    /\ Insert(LogCap, id, data)
    /\ Logged([op |-> "Insert", id |-> id, data |-> data],
              LSMEngine_insert(World, Record_new(id, data)).w)

LogUpdate(id, data) ==
    /\ Update(LogCap, id, data)
    /\ Logged([op |-> "Update", id |-> id, data |-> data],
              LSMEngine_update(World, id, data).w)

LogDelete(id) ==
    /\ Delete(LogCap, id)
    /\ Logged([op |-> "Delete", id |-> id, data |-> <<>>],
              LSMEngine_delete(World, id).w)

\* flush() clears the log when the memtable holds a record.
LogFlush ==
    /\ Flush(LogCap)
    /\ history' = IF Len(memtable) > 0 THEN <<>> ELSE history

\* A new engine opens write.log again with WriteLog::new; its replay clears the
\* log when it rolls the memtable over.
LogRestart ==
    /\ Restart(LogCap)
    /\ history' =
           IF LSMEngine_new(World).next
                  > LSMEngine_load_existing_sstables(
                        [World EXCEPT !.ssts = <<>>, !.next = FirstSstId]).next
           THEN <<>>
           ELSE history

NextLog ==
    \/ \E id \in LogIds, data \in LogPayloads : LogInsert(id, data) /\ UNCHANGED <<last, catalog, codec>>
    \/ \E id \in LogIds, data \in LogPayloads : LogUpdate(id, data) /\ UNCHANGED <<last, catalog, codec>>
    \/ \E id \in LogIds : LogDelete(id) /\ UNCHANGED <<last, catalog, codec>>
    \/ LogFlush /\ UNCHANGED <<last, catalog, codec>>
    \/ LogRestart /\ UNCHANGED <<last, catalog, codec>>

SpecLog == Init /\ [][NextLog]_vars

\* ---- SpecCatalog: CREATE TABLE, DROP TABLE, INSERT and the restart of the
\* query engine on its data directory.
lsm == <<max_size, memtable, writelog, sstables, next_sstable_id, files, clock,
         last, truncated, history>>

CreateTable(name, columns) ==
    \E res \in QueryEngine_execute_create(catalog, name, columns) :
        catalog' = [res.c EXCEPT !.ret = res.ret,
                                 !.created = IF res.ret = "CreateTable"
                                             THEN @ \cup {name} ELSE @,
                                 !.rejected = IF res.ret = "CreateTable"
                                              THEN @ ELSE @ \cup {res.ret}]

DropTable(name) ==
    \E res \in QueryEngine_execute_drop(catalog, name) :
        catalog' = [res.c EXCEPT !.ret = res.ret,
                                 !.created = IF res.ret = "DropTable"
                                             THEN @ \ {name} ELSE @,
                                 !.dropped = IF res.ret = "DropTable"
                                             THEN @ \cup {name} ELSE @,
                                 !.rejected = IF res.ret = "DropTable"
                                              THEN @ ELSE @ \cup {res.ret}]

InsertRow(name) ==
    LET res == QueryEngine_execute_insert(catalog, name)
    IN  /\ \A n \in DOMAIN res.c.dirs : res.c.dirs[n] <= MaxRows
        /\ catalog' = [res.c EXCEPT !.ret = res.ret]

RestartCatalog ==
    catalog' = [QueryEngine_new_with_data_dir(catalog) EXCEPT !.ret = "Restart"]

NextCatalog ==
    \/ \E name \in TableNames, columns \in Schemas :
           CreateTable(name, columns) /\ UNCHANGED <<lsm, codec>>
    \/ \E name \in TableNames : DropTable(name) /\ UNCHANGED <<lsm, codec>>
    \/ \E name \in TableNames : InsertRow(name) /\ UNCHANGED <<lsm, codec>>
    \/ RestartCatalog /\ UNCHANGED <<lsm, codec>>

SpecCatalog == Init /\ [][NextCatalog]_vars

\* ---- SpecCatalogIo: CREATE TABLE, DROP TABLE and the restart of the query
\* engine, each succeeding or failing on the file system.
CreateTableFails(name, columns) ==
    \E res \in CreateFailures(catalog, name, columns) :
        catalog' = [res.c EXCEPT !.ret = res.ret, !.rejected = @ \cup {res.ret}]

DropTableFails(name) ==
    \E res \in DropFailures(catalog, name) :
        catalog' = [res.c EXCEPT !.ret = res.ret, !.rejected = @ \cup {res.ret}]

RestartCatalogFails ==
    \E c \in LoadFailures([catalog EXCEPT !.tables = <<>>, !.storage_engines = <<>>]) :
        catalog' = [c EXCEPT !.ret = "RestartWarning"]

NextCatalogIo ==
    \/ \E name \in TableNames, columns \in Schemas :
           CreateTable(name, columns) /\ UNCHANGED <<lsm, codec>>
    \/ \E name \in TableNames : DropTable(name) /\ UNCHANGED <<lsm, codec>>
    \/ RestartCatalog /\ UNCHANGED <<lsm, codec>>
    \/ \E name \in TableNames, columns \in Schemas :
           CreateTableFails(name, columns) /\ UNCHANGED <<lsm, codec>>
    \/ \E name \in TableNames : DropTableFails(name) /\ UNCHANGED <<lsm, codec>>
    \/ RestartCatalogFails /\ UNCHANGED <<lsm, codec>>

SpecCatalogIo == Init /\ [][NextCatalogIo]_vars

\* ---- SpecCodec: one row of a schema is encoded by the INSERT path, rewritten
\* by the UPDATE path any number of times, and decoded by the SELECT path.
IntegerCol == [data_type |-> "Integer", max_len |-> 0]
TimestampCol == [data_type |-> "Timestamp", max_len |-> 0]
BooleanCol == [data_type |-> "Boolean", max_len |-> 0]
VarcharCol(max_len) == [data_type |-> "Varchar", max_len |-> max_len]

ColumnKinds == {IntegerCol, TimestampCol, BooleanCol, VarcharCol(MaxVarchar)}

CodecValues ==
    {<<"0">>, <<"-", "1">>, <<"+", "5">>, <<"0", "0", "7">>, <<"-", "0">>,
     <<"2", "5", "6">>, <<"-", "2", "5", "7">>, <<"-">>, <<>>,
     <<"'", "a", "b", "'">>, <<"\"", EAcute, "\"">>, <<"'", "a", "\"">>,
     <<"a", "b", "c">>, <<"'", "'">>, <<"a", "'", "b">>,
     <<"T", "R", "U", "E">>, <<"'", "F", "a", "l", "s", "e", "'">>,
     <<"t", "r", "u", "e">>}

CodecInputs ==
    UNION {{[stage |-> "row", columns |-> c, values |-> v, data |-> <<>>, row |-> <<>>] :
               c \in [1..k -> ColumnKinds], v \in [1..k -> CodecValues]} :
           k \in 1..MaxColumns}

InitCodec ==
    /\ max_size = MaxMemtableSize
    /\ memtable = <<>>
    /\ writelog = <<>>
    /\ sstables = <<>>
    /\ next_sstable_id = FirstSstId
    /\ files = <<>>
    /\ clock = 1
    /\ last = [id \in Ids |-> None]
    /\ truncated = FALSE
    /\ history = <<>>
    /\ catalog = EmptyCatalog
    /\ codec \in CodecInputs

Encoded(data) ==
    codec' = IF data = None THEN [codec EXCEPT !.stage = "rejected"]
             ELSE [codec EXCEPT !.stage = "encoded", !.data = data[1]]

EncodeInsert ==
    codec.stage = "row" /\ Encoded(InsertParser_record_data(codec.columns, codec.values))

EncodeUpdate(i, new_value) ==
    /\ codec.stage = "encoded"
    /\ i \in 1..Len(codec.columns)
    /\ LET data == UpdateParser_build_updated_record_data(codec.data, codec.columns,
                                                          i, new_value)
       IN  codec' = IF data = None
                    THEN [codec EXCEPT !.stage = "rejected", !.values[i] = new_value]
                    ELSE [codec EXCEPT !.data = data[1], !.values[i] = new_value]

Decode ==
    /\ codec.stage = "encoded"
    /\ codec' = [codec EXCEPT !.stage = "decoded",
                              !.row = SelectParser_parse_record_data(codec.data,
                                                                     codec.columns)]

NextCodec ==
    \/ EncodeInsert /\ UNCHANGED <<lsm, catalog>>
    \/ \E i \in 1..MaxColumns, new_value \in CodecValues :
           EncodeUpdate(i, new_value) /\ UNCHANGED <<lsm, catalog>>
    \/ Decode /\ UNCHANGED <<lsm, catalog>>

SpecCodec == InitCodec /\ [][NextCodec]_vars

\* ---- SpecDecode: the payload of an encoded row is cut short, or has a byte
\* appended, or, when it has at most MaxRecastLen bytes, none above
\* MaxRecastByte, is read under any schema, and is then decoded by the SELECT
\* path.
PadBytes == {0, 1}
CodecSchemas == UNION {[1..k -> ColumnKinds] : k \in 1..MaxColumns}

Cut(n) ==
    /\ codec.stage = "encoded"
    /\ n < Len(codec.data)
    /\ codec' = [codec EXCEPT !.stage = "cut", !.data = SubSeq(codec.data, 1, n)]

PadByte(b) ==
    /\ codec.stage = "encoded"
    /\ codec' = [codec EXCEPT !.stage = "padded", !.data = Append(codec.data, b)]

Recast(columns) ==
    /\ codec.stage \in {"encoded", "cut"}
    /\ Len(codec.data) <= MaxRecastLen
    /\ \A i \in 1..Len(codec.data) : codec.data[i] <= MaxRecastByte
    /\ codec' = [codec EXCEPT !.stage = "recast", !.columns = columns]

DecodeAny ==
    /\ codec.stage \in {"encoded", "cut", "padded", "recast"}
    /\ codec' = [codec EXCEPT !.stage = "decoded",
                              !.row = SelectParser_parse_record_data(codec.data,
                                                                     codec.columns)]

NextDecode ==
    \/ EncodeInsert /\ UNCHANGED <<lsm, catalog>>
    \/ \E n \in 0..(8 * MaxColumns) : Cut(n) /\ UNCHANGED <<lsm, catalog>>
    \/ \E b \in PadBytes : PadByte(b) /\ UNCHANGED <<lsm, catalog>>
    \/ \E columns \in CodecSchemas : Recast(columns) /\ UNCHANGED <<lsm, catalog>>
    \/ DecodeAny /\ UNCHANGED <<lsm, catalog>>

SpecDecode == InitCodec /\ [][NextDecode]_vars

\* ------------------------------------------------------------- claims
\* get(id) on world w can only return the record (id, data).
GetIs(w, id, data) == LSMEngine_get(w, id) = {Some(Record_new(id, data))}

\* C1 (durability). After any sequence of successful insert/update calls, with
\* rollovers, flushes and restarts in between, dropping the engine and
\* constructing a new one on the directory gives an engine whose get(id)
\* returns, for every id written, the payload of the last successful write.
C1_Durability ==
    \A id \in Ids :
        last[id] # None => GetIs(LSMEngine_new(World), id, last[id][1])

\* C2 (newest wins). On one engine, after any sequence of successful insert and
\* update calls, get(id) returns the payload of the most recent successful
\* insert or update of id.
C2_NewestWins ==
    \A id \in Ids : last[id] # None => GetIs(World, id, last[id][1])

\* C3. Every record of the memtable is covered by write.log: replaying the log
\* onto an empty memtable gives a memtable that holds the record.
C3_MemtableCoveredByWal ==
    LET replayed == LSMEngine_replay_write_log([World EXCEPT !.mem = <<>>]).mem
    IN  \A i \in 1..Len(memtable) :
            \E j \in 1..Len(replayed) : replayed[j] = memtable[i]

\* Two worlds answer every get and get_all_records alike.
SameReads(w1, w2) ==
    /\ \A id \in Ids : LSMEngine_get(w1, id) = LSMEngine_get(w2, id)
    /\ LSMEngine_get_all_records(w1) = LSMEngine_get_all_records(w2)

\* C4. When no rollover forced by a full memtable has truncated write.log since
\* the memtable was last empty, dropping the engine and constructing a new one on
\* the directory gives the memtable the records it held, and every get(id) the
\* result it had.
C4_ReplayRecovers ==
    ~truncated =>
        /\ LSMEngine_new(World).mem = memtable
        /\ \A id \in Ids :
               LSMEngine_get(LSMEngine_new(World), id) = LSMEngine_get(World, id)

\* C5 (rollover idempotence). A process that dies in a rollover after the SSTable
\* file is written and before write.log is truncated leaves a directory on which
\* a new engine reads as a new engine does on the directory of a completed
\* rollover: in flush(), and in the rollover of a write that found the memtable
\* full.
C5_RolloverIdempotent ==
    /\ Len(memtable) > 0 =>
           SameReads(LSMEngine_new(DiesInRollover(World)),
                     LSMEngine_new(LSMEngine_flush_memtable(World)))
    /\ MemTable_is_full(World) =>
           \A line \in WriteLines :
               SameReads(
                   LSMEngine_new(DiesInRollover(DiesAfterLog(World, line))),
                   LSMEngine_new(LSMEngine_flush_memtable(DiesAfterLog(World, line))))

\* The world of flush_memtable right before its call of compact_sstables.
BeforeCompaction == RolloverNoCompaction(World)
Compacts == Len(memtable) > 0 /\ Len(BeforeCompaction.ssts) > CompactionThreshold

\* C6. A compaction changes no read: every get(id) and get_all_records() answer
\* after compact_sstables as before it, and of an id that both of the two oldest
\* SSTables hold, the merged SSTable keeps the copy of the newer of the two.
C6_CompactionPreservesReads ==
    Compacts =>
        LET before == BeforeCompaction
            after  == LSMEngine_compact_sstables(before)
            n      == Len(before.ssts)
            newer  == SSTable_get_all(before, before.ssts[n - 1])
            older  == SSTable_get_all(before, before.ssts[n])
            merged == after.ssts[Len(after.ssts)].block
        IN  /\ SameReads(after, before)
            /\ \A id \in Ids :
                   (Block_get(newer, id) # None /\ Block_get(older, id) # None)
                       => Block_get(merged, id) = Block_get(newer, id)

\* C7. The SSTable list is ordered newest to oldest by write recency in every
\* state, also right after recovery, so that a clean restart (the memtable and
\* write.log empty, everything in SSTables) changes no get(id).
C7_CleanRestartKeepsReads ==
    (memtable = <<>> /\ writelog = <<>>) =>
        \A id \in Ids :
            LSMEngine_get(LSMEngine_new(World), id) = LSMEngine_get(World, id)

\* The ids the memtable or an SSTable of w holds.
HeldIds(w) ==
    {w.mem[i].id : i \in 1..Len(w.mem)}
    \cup UNION {{SSTable_get_all(w, w.ssts[k])[i].id :
                    i \in 1..Len(SSTable_get_all(w, w.ssts[k]))} :
                k \in 1..Len(w.ssts)}

\* C8. get_all_records() is strictly ascending by id and holds exactly one
\* record for each id the memtable or an SSTable holds.
C8_GetAllSortedUnique ==
    LET all == LSMEngine_get_all_records(World)
    IN  /\ \A i \in 1..(Len(all) - 1) : all[i].id < all[i + 1].id
        /\ {all[i].id : i \in 1..Len(all)} = HeldIds(World)

\* An id is in the memtable and in two SSTables, and another id is held too.
C8_Witness ==
    /\ Len(sstables) >= 2
    /\ Len(LSMEngine_get_all_records(World)) >= 2
    /\ \E i \in 1..Len(memtable) :
           \A k \in 1..Len(sstables) :
               Block_get(SSTable_get_all(World, sstables[k]), memtable[i].id) # None

\* C9. After any flush(), the memtable and write.log are empty and get returns
\* every record the memtable held before the call.
C9_FlushEmptiesAndKeeps ==
    LET w == LSMEngine_flush(World)
    IN  /\ w.mem = <<>>
        /\ w.wal = <<>>
        /\ \A i \in 1..Len(memtable) :
               LSMEngine_get(w, memtable[i].id) = {Some(memtable[i])}

\* C10. An insert of a new id that finds the memtable full (all ids inserted so
\* far distinct) leaves the memtable holding the record alone, a new SSTable at
\* the front of the list holding the max_size records the memtable held, one
\* more SSTable than before (less the one a compaction then merges away),
\* write.log empty, and every record inserted so far returned by get.
C10_RolloverOnFullMemtable ==
    [][\A id \in FreshIds, data \in Payloads :
          (InsertFresh(id, data) /\ MemTable_is_full(World)) =>
              /\ memtable' = <<Record_new(id, data)>>
              /\ sstables'[1].path = next_sstable_id
              /\ Len(sstables'[1].block) = max_size
              /\ {sstables'[1].block[i] : i \in 1..max_size}
                     = {memtable[i] : i \in 1..Len(memtable)}
              /\ Len(sstables') = IF Len(sstables) + 1 > CompactionThreshold
                                  THEN Len(sstables)
                                  ELSE Len(sstables) + 1
              /\ writelog' = <<>>
              /\ \A other \in FreshIds :
                     last'[other] # None => GetIs(World', other, last'[other][1])
      ]_vars

\* An insert has just rolled over a full memtable of two records.
C10_Witness ==
    /\ truncated /\ max_size = 2
    /\ Len(memtable) = 1 /\ writelog = <<>>
    /\ Len(sstables) >= 2 /\ Len(sstables[1].block) = 2

\* C11. update(id, payload) returns Ok(true) in every state, and right after it
\* get(id) returns payload: the id in the memtable, in an SSTable only or
\* nowhere, the memtable full or not.
C11_UpdateObservable ==
    \A id \in Ids, data \in Payloads :
        LET res == LSMEngine_update(World, id, data)
        IN  res.ret = "Ok(true)" /\ GetIs(res.w, id, data)

\* update(id, data) was the last call, on an id that two SSTables hold.
C11_Witness ==
    /\ Len(writelog) > 0
    /\ \E id \in Ids, data \in SpecPayloads :
           /\ writelog[Len(writelog)] = UpdateLine(id, data)
           /\ Block_get(memtable, id) = Some(Record_new(id, data))
           /\ Len(sstables) >= 2
           /\ \A k \in 1..2 :
                  Block_get(SSTable_get_all(World, sstables[k]), id) # None

\* The id is in no SSTable of w.
InNoSst(w, id) ==
    \A k \in 1..Len(w.ssts) : Block_get(SSTable_get_all(w, w.ssts[k]), id) = None

\* C12. After delete(id) the memtable holds no record of the id, and get(id)
\* returns None when no SSTable holds the id.
C12_DeleteRemoves ==
    \A id \in Ids :
        LET w == LSMEngine_delete(World, id).w
        IN  /\ Block_get(w.mem, id) = None
            /\ InNoSst(w, id) => LSMEngine_get(w, id) = {None}

\* C13. delete(id) appends one line to write.log, a line that replay reads as
\* Delete of the id, and returns true exactly when the memtable held a record of
\* the id right before the call.
C13_DeleteLogsAndReports ==
    \A id \in Ids :
        LET res == LSMEngine_delete(World, id)
        IN  /\ Len(res.w.wal) = Len(writelog) + 1
            /\ SubSeq(res.w.wal, 1, Len(writelog)) = writelog
            /\ LogEntry_parse(res.w.wal[Len(res.w.wal)])
                   = Some([op |-> "Delete", id |-> id, data |-> <<>>])
            /\ (res.ret = "Ok(true)") <=> (Block_get(memtable, id) # None)

\* delete(id) was the last call and removed the record an insert had put in
\* the memtable, while an SSTable holds the id.
C13_Witness ==
    /\ Len(writelog) >= 2
    /\ \E id \in Ids :
           /\ writelog[Len(writelog)] = DeleteLine(id)
           /\ writelog[Len(writelog) - 1][1] = "INSERT"
           /\ writelog[Len(writelog) - 1][2] = FormatU64(id)
           /\ Block_get(memtable, id) = None
           /\ ~InNoSst(World, id)

\* C14. A process that dies in insert, update or delete after the line is
\* logged and before the memtable is touched leaves a directory on which a new
\* engine answers get(id) as a new engine does on the directory the completed
\* call leaves.
C14_CrashAfterLogRecovered ==
    \A id \in Ids :
        /\ \A data \in SpecPayloads :
               /\ LSMEngine_get(LSMEngine_new(
                       DiesAfterLog(World, InsertLine(Record_new(id, data)))), id)
                  = LSMEngine_get(LSMEngine_new(
                       LSMEngine_insert(World, Record_new(id, data)).w), id)
               /\ LSMEngine_get(LSMEngine_new(
                       DiesAfterLog(World, UpdateLine(id, data))), id)
                  = LSMEngine_get(LSMEngine_new(
                       LSMEngine_update(World, id, data).w), id)
        /\ LSMEngine_get(LSMEngine_new(DiesAfterLog(World, DeleteLine(id))), id)
           = LSMEngine_get(LSMEngine_new(LSMEngine_delete(World, id).w), id)

\* C15. Every step leaves the files it found as they were, gives every file it
\* writes a number that next_sstable_id had not yet passed, and leaves
\* next_sstable_id no smaller and greater than the number of every file of the
\* directory: no sstable_<n>.dat is written twice, restarts and crashes included.
C15_SstWrittenOnce ==
    [][/\ next_sstable_id' >= next_sstable_id
       /\ \A n \in DOMAIN files' :
              /\ n < next_sstable_id'
              /\ n \in DOMAIN files => files'[n] = files[n]
              /\ n \notin DOMAIN files => n >= next_sstable_id
      ]_vars

\* A directory that has seen two compactions, reopened.
C15_Witness ==
    /\ next_sstable_id >= 9
    /\ Len(sstables) >= 1
    /\ \A k \in 1..Len(sstables) : ~sstables[k].is_loaded

\* The worlds replay_write_log goes through: before the first entry and after
\* each entry.
RECURSIVE ReplayWorlds(_, _)
ReplayWorlds(w, entries) ==
    IF Len(entries) = 0 THEN {w}
    ELSE {w} \cup ReplayWorlds(ReplayEntry(w, entries[1]), Tail(entries))

\* The worlds between the calls of flush_memtable that LSMEngine::new makes on
\* the directory of d.
WorldsOfNew(d) ==
    LET loaded == LSMEngine_load_existing_sstables(
                      [d EXCEPT !.mem = <<>>, !.ssts = <<>>, !.next = FirstSstId])
    IN  ReplayWorlds(loaded, WriteLog_replay(loaded.wal))

\* C16. With clean restarts only, the SSTable list holds at most 4 SSTables
\* between calls and whenever a rollover has returned, in a live engine and
\* during the replay of a new one, and at most 5 inside a rollover, before its
\* compaction.
C16_CompactionBound ==
    \A w \in {World} \cup WorldsOfNew(World) :
        /\ Len(w.ssts) <= CompactionThreshold
        /\ Len(w.mem) > 0 =>
               /\ Len(RolloverNoCompaction(w).ssts) <= CompactionThreshold + 1
               /\ Len(LSMEngine_flush_memtable(w).ssts) <= CompactionThreshold

\* Two compactions have run and the list is at its bound with a record in the
\* memtable: the next rollover compacts again.
C16_Witness ==
    /\ next_sstable_id >= 9
    /\ Len(sstables) = CompactionThreshold
    /\ Len(memtable) > 0

\* The records are strictly ascending by id.
StrictlySorted(recs) == \A i \in 1..(Len(recs) - 1) : recs[i].id < recs[i + 1].id

\* C17. Every SSTable the engine has created, by rollover or by compaction,
\* holds records strictly ascending by id: sorted, no id twice.
C17_SstStrictlySorted ==
    /\ \A n \in DOMAIN files : StrictlySorted(files[n].recs)
    /\ \A k \in 1..Len(sstables) : StrictlySorted(SSTable_get_all(World, sstables[k]))

\* The last record of recs with the id (recs holds one).
LastOf(recs, id) ==
    recs[CHOOSE i \in 1..Len(recs) :
             /\ recs[i].id = id
             /\ \A j \in (i + 1)..Len(recs) : recs[j].id # id]

\* C18. self.merge_with(other), for any two SSTables of the list: the output
\* holds exactly one record for every id of either input, for each id the
\* record that comes last in self's records followed by other's (for an id in
\* both, other's record), and the files of the inputs are left as they were.
C18_MergeKeepsLater ==
    \A a, b \in 1..Len(sstables) :
        a # b =>
            LET self   == SSTable_get_all(World, sstables[a])
                other  == SSTable_get_all(World, sstables[b])
                concat == self \o other
                m      == SSTable_merge_with(World, sstables[a], sstables[b],
                                             next_sstable_id)
                out    == m.sst.block
            IN  /\ StrictlySorted(out)
                /\ {out[i].id : i \in 1..Len(out)}
                       = {concat[i].id : i \in 1..Len(concat)}
                /\ \A i \in 1..Len(out) : out[i] = LastOf(concat, out[i].id)
                /\ m.w.files[next_sstable_id].recs = out
                /\ \A n \in DOMAIN files : m.w.files[n] = files[n]

\* C19. Block::insert(r) on the block of the memtable appends r and returns
\* true when the block holds no record of r.id, and otherwise returns false and
\* leaves the block as it was; the memtable never holds an id twice.
C19_BlockInsertRejectsDuplicates ==
    /\ \A id \in Ids, data \in Payloads :
           LET r   == Record_new(id, data)
               res == Block_insert(memtable, r)
           IN  IF Block_get(memtable, id) = None
               THEN res.ok /\ res.recs = Append(memtable, r)
               ELSE ~res.ok /\ res.recs = memtable
    /\ \A i, j \in 1..Len(memtable) : memtable[i].id = memtable[j].id => i = j

\* C20. The memtable holds at most max_size records, in every state of a live
\* engine and in every state the replay of a new engine goes through, and
\* MemTable::insert on a full memtable returns false and leaves it as it was.
C20_MemtableBounded ==
    \A w \in {World} \cup WorldsOfNew(World) :
        /\ Len(w.mem) <= w.max_size
        /\ MemTable_is_full(w) =>
               \A id \in Ids, data \in Payloads :
                   LET res == MemTable_insert(w, Record_new(id, data))
                   IN  ~res.ok /\ res.w = w

\* The memtable is full after a rollover, in an engine that was reopened.
C20_Witness ==
    /\ truncated
    /\ MemTable_is_full(World)
    /\ Len(memtable) = MaxMemtableSize
    /\ \E k \in 1..Len(sstables) : ~sstables[k].is_loaded

\* The world of res has the memtable, the SSTable list and next_sstable_id of
\* the state.
EngineUntouched(res) ==
    /\ res.ret = "Err"
    /\ res.w.mem = memtable
    /\ res.w.ssts = sstables
    /\ res.w.next = next_sstable_id
    /\ res.w.files = files

\* C21. An insert, update or delete whose WAL append fails returns the error and
\* leaves the memtable, the SSTable list and next_sstable_id as they were.
C21_FailedAppendLeavesEngine ==
    \A id \in Ids :
        /\ \A data \in Payloads :
               /\ \A res \in LSMEngine_insert_failing(World, Record_new(id, data)) :
                      EngineUntouched(res)
               /\ \A res \in LSMEngine_update_failing(World, id, data) :
                      EngineUntouched(res)
        /\ \A res \in LSMEngine_delete_failing(World, id) : EngineUntouched(res)

\* An append has failed and left a cut line in write.log, with the memtable
\* full and an SSTable in the list.
C21_Witness ==
    /\ Len(writelog) > 0
    /\ LogEntry_parse(writelog[Len(writelog)]) = None
    /\ MemTable_is_full(World)
    /\ Len(sstables) > 0

\* C22. WriteLog::replay returns exactly the entries logged since the last
\* clear, in the order of the calls that logged them, also after the log is
\* reopened by a new engine.
C22_ReplayIsLogOrder == WriteLog_replay(writelog) = history

\* Two entries are in the log, of the one-digit and the two-digit id, one an
\* update with the three-byte payload, in an engine that was reopened after a
\* flush.
C22_Witness ==
    /\ Len(history) = 2
    /\ {history[i].id : i \in 1..2} = LogIds
    /\ \E i \in 1..2 : history[i].op = "Update" /\ history[i].data = <<1, 2, 3>>
    /\ \E k \in 1..Len(sstables) : ~sstables[k].is_loaded

\* C23 (catalog durability). After any sequence of successful CREATE TABLE and
\* DROP TABLE statements, the query engine constructed again on the data
\* directory lists exactly the tables created and not dropped since, holds a
\* storage engine for each of them, and answers a statement on a dropped table
\* with table-not-found.
C23_CatalogSurvivesRestart ==
    catalog.ret = "Restart" =>
        /\ QueryEngine_list_tables(catalog) = catalog.created
        /\ \A name \in catalog.created : name \in DOMAIN catalog.storage_engines
        /\ \A name \in catalog.dropped \ catalog.created :
               /\ QueryEngine_execute_select(catalog, name) = "TableNotFound"
               /\ QueryEngine_execute_insert(catalog, name).ret = "TableNotFound"

\* The query engine has just been restarted on a directory where one table was
\* created and dropped and another, holding rows, was created and kept.
C23_Witness ==
    /\ catalog.ret = "Restart"
    /\ catalog.created = {"u"}
    /\ catalog.dropped = {"t"}
    /\ catalog.storage_engines["u"] > 0
    /\ Len(catalog.tables["u"]) = 2

\* C24 (rejected DDL changes nothing). CREATE TABLE of a name that exists is
\* rejected and DROP TABLE of a name that does not exist is rejected, and the
\* schema map, the engines, tables.json and the tables' stored rows are what
\* they were.
C24_RejectedDdlChangesNothing ==
    /\ \A name \in DOMAIN catalog.tables, columns \in Schemas :
           QueryEngine_execute_create(catalog, name, columns)
               = {[c |-> catalog, ret |-> "DuplicateKey"]}
    /\ \A name \in TableNames \ DOMAIN catalog.tables :
           QueryEngine_execute_drop(catalog, name)
               = {[c |-> catalog, ret |-> "TableNotFound"]}

\* A CREATE TABLE and a DROP TABLE have been rejected, the latter just now,
\* while one table exists, with rows stored and a manifest written, and the
\* other name, dropped before, does not.
C24_Witness ==
    /\ catalog.rejected = {"DuplicateKey", "TableNotFound"}
    /\ catalog.ret = "TableNotFound"
    /\ DOMAIN catalog.tables = {"t"}
    /\ catalog.dirs["t"] > 0
    /\ catalog.manifest # None
    /\ "u" \in catalog.dropped

\* The canonical forms: the value without its leading and trailing quote
\* characters; that, lower-cased; the decimal numeral without a plus sign,
\* without leading zeros and without a sign on zero.
Unquoted(value) ==
    IF \A k \in 1..Len(value) : IsQuote(value[k]) THEN <<>>
    ELSE LET first == CHOOSE k \in 1..Len(value) :
                          ~IsQuote(value[k]) /\ \A j \in 1..(k - 1) : IsQuote(value[j])
             final == CHOOSE k \in 1..Len(value) :
                          ~IsQuote(value[k]) /\ \A j \in (k + 1)..Len(value) : IsQuote(value[j])
         IN  SubSeq(value, first, final)

RECURSIVE WithoutLeadingZeros(_)
WithoutLeadingZeros(digits) ==
    IF Len(digits) > 1 /\ digits[1] = "0" THEN WithoutLeadingZeros(Tail(digits))
    ELSE digits

CanonicalDecimal(value) ==
    LET digits == WithoutLeadingZeros(IF value[1] \in {"+", "-"} THEN Tail(value) ELSE value)
    IN  IF value[1] = "-" /\ digits # <<"0">> THEN <<"-">> \o digits ELSE digits

Canonical(column, value) ==
    CASE column.data_type \in {"Integer", "Timestamp"} -> CanonicalDecimal(value)
      [] column.data_type = "Varchar" -> Unquoted(value)
      [] column.data_type = "Boolean" -> to_lowercase(Unquoted(value))

AllValid(columns, values) ==
    \A i \in 1..Len(columns) : Column_validate_value(columns[i], values[i])

\* C25 (codec round trip). For every schema and every row whose values pass
\* the column validation, the payload produced by encoding the row decodes to
\* the same values in their canonical forms: varchar without its surrounding
\* quotes, booleans lower-cased, integers and timestamps in canonical decimal.
\* A row is refused by the encoder only when one of its values is not valid.
C25_CodecRoundTrip ==
    /\ codec.stage \in {"encoded", "decoded"} =>
           /\ AllValid(codec.columns, codec.values)
           /\ SelectParser_parse_record_data(codec.data, codec.columns)
                  = [i \in 1..Len(codec.columns) |->
                        Canonical(codec.columns[i], codec.values[i])]
    /\ codec.stage = "decoded" =>
           codec.row = [i \in 1..Len(codec.columns) |->
                           Canonical(codec.columns[i], codec.values[i])]
    /\ codec.stage = "rejected" => ~AllValid(codec.columns, codec.values)

\* A decoded row of a quoted two-byte varchar and a negative integer, neither
\* of which reads as it was written.
C25_Witness ==
    /\ codec.stage = "decoded"
    /\ Len(codec.columns) = 2
    /\ codec.columns[1].data_type = "Varchar"
    /\ codec.values[1] = <<"\"", EAcute, "\"">>
    /\ codec.row[1] = <<EAcute>>
    /\ codec.columns[2].data_type = "Integer"
    /\ codec.values[2] = <<"-", "2", "5", "7">>
    /\ codec.row[2] = codec.values[2]

\* C26 (get and get_all_records agree). In every reachable state and for every
\* id, get(id) returns Some(r) exactly when get_all_records() holds a record
\* of that id, and that record has the payload of r.
C26_GetAgreesWithScan ==
    \A id \in Ids :
        \A found \in LSMEngine_get(World, id) :
            LET all == LSMEngine_get_all_records(World)
            IN  /\ found # None <=> \E i \in 1..Len(all) : all[i].id = id
                /\ found # None =>
                       \A i \in 1..Len(all) : all[i].id = id => all[i].data = found[1].data

\* The directories the engine in world w can leave behind: the one of a clean
\* drop, and the ones of a process that dies after a write has appended its
\* line to write.log, or after a rollover has written its SSTable and before
\* it has truncated write.log.
LeftBehind(w) ==
    LET lines == WriteLines \cup {DeleteLine(id) : id \in Ids}
    IN  {w}
        \cup {DiesAfterLog(w, line) : line \in lines}
        \cup (IF Len(w.mem) > 0 THEN {DiesInRollover(w)} ELSE {})
        \cup (IF MemTable_is_full(w)
              THEN {DiesInRollover(DiesAfterLog(w, line)) : line \in WriteLines}
              ELSE {})

\* C27 (recovery is idempotent). For every directory an engine can leave
\* behind, a crash included, the engine constructed on it, dropped without a
\* write and constructed again answers get(id) for every id as the first
\* construction did.
C27_RecoveryIdempotent ==
    \A d \in LeftBehind(World) :
        LET first  == LSMEngine_new(d)
            second == LSMEngine_new(first)
        IN  \A id \in Ids : LSMEngine_get(second, id) = LSMEngine_get(first, id)

\* The rollovers among the first i entries of the history.
Rollovers(i) == Cardinality({j \in 1..i : history[j].ev = "rollover"})

\* C28 as stated (compaction timing). Starting from an engine with no SSTs, the
\* first five rollovers do not trigger compaction, and compaction first runs
\* during the sixth rollover, reducing the SST list by one.
C28_CompactionAtSixthRollover ==
    /\ \A i \in 1..Len(history) : history[i].ev = "compaction" => Rollovers(i) >= 6
    /\ Rollovers(Len(history)) >= 6 =>
           \E i \in 1..Len(history) :
               /\ history[i].ev = "compaction"
               /\ Rollovers(i) = 6
               /\ history[i].len = history[i - 1].len - 1

\* C28 as amended. Starting from an engine with no SSTs, the first four
\* rollovers do not trigger compaction, and compaction first runs during the
\* fifth rollover, reducing the SST list by one, from five to four.
C28_CompactionAtFifthRollover ==
    /\ \A i \in 1..Len(history) : history[i].ev \in {"rollover", "compaction"}
    /\ \A i \in 1..Len(history) : history[i].ev = "compaction" => Rollovers(i) >= 5
    /\ Rollovers(Len(history)) >= 5 =>
           \E i \in 1..Len(history) :
               /\ history[i].ev = "compaction"
               /\ Rollovers(i) = 5
               /\ history[i - 1].ev = "rollover"
               /\ history[i - 1].len = CompactionThreshold + 1
               /\ history[i].len = history[i - 1].len - 1

\* Five rollovers have run, the fifth with the first compaction, and the list
\* holds four SSTables.
C28_Witness ==
    /\ Rollovers(Len(history)) = 5
    /\ Len(history) = 6
    /\ history[6].ev = "compaction"
    /\ Len(sstables) = CompactionThreshold

\* The SSTable files from the one with the newest data to the one with the
\* oldest, after the events h: a rollover's file is the newest, and the file a
\* compaction writes stands where the older of the files it merged stood.
RECURSIVE AgeOrder(_)
AgeOrder(h) ==
    IF Len(h) = 0 THEN <<>>
    ELSE LET e     == h[Len(h)]
             order == AgeOrder(SubSeq(h, 1, Len(h) - 1))
         IN  IF e.ev = "rollover" THEN <<e.path>> \o order
             ELSE IF e.ev = "compaction" /\ \E i \in 1..Len(order) : order[i] \in e.removed
             THEN LET at   == CHOOSE i \in 1..Len(order) :
                                  /\ order[i] \in e.removed
                                  /\ \A j \in (i + 1)..Len(order) : order[j] \notin e.removed
                      Keep(x) == x \notin e.removed
                  IN  SelectSeq(SubSeq(order, 1, at), Keep) \o <<e.path>>
                      \o SubSeq(order, at + 1, Len(order))
             ELSE order

\* compact_sstables on world w did what C29 says to the list, the files, the
\* counter, the memtable and write.log.
CompactionFrame(w) ==
    LET c == LSMEngine_compact_sstables(w)
        n == Len(w.ssts)
    IN  /\ Len(c.ssts) = n - 1
        /\ SubSeq(c.ssts, 1, n - 2) = SubSeq(w.ssts, 1, n - 2)
        /\ c.ssts[n - 1].path = w.next
        /\ c.next = w.next + 1
        /\ c.mem = w.mem
        /\ c.wal = w.wal
        /\ DOMAIN c.files = ((DOMAIN w.files) \ {w.ssts[n].path, w.ssts[n - 1].path})
                                \cup {w.next}
        /\ \A k \in (DOMAIN c.files) \ {w.next} : c.files[k] = w.files[k]

\* C29 (one compaction). One compaction removes exactly the two SSTs at the
\* tail of the list, which are the two oldest, appends one merged SST at the
\* tail whose file is sstable_<next_sst_id>.dat, increments next_sst_id by one
\* and leaves the other SSTs, their order, the memtable and the WAL unchanged;
\* the list is one shorter.
C29_CompactionEffect ==
    /\ Compacts => CompactionFrame(BeforeCompaction)
    /\ \A i \in 1..Len(history) :
           history[i].ev = "compaction" =>
               LET order == AgeOrder(SubSeq(history, 1, i - 1))
               IN  history[i].removed = {order[Len(order)], order[Len(order) - 1]}

\* Some SSTable of the list of world w holds a record of the id.
InSomeSst(w, id) ==
    \E i \in 1..Len(w.ssts) :
        \E k \in 1..Len(SSTable_get_all(w, w.ssts[i])) :
            SSTable_get_all(w, w.ssts[i])[k].id = id

\* C30 (delete leaves the SSTables). delete(id) changes only write.log and the
\* memtable: the list, every SSTable's contents and file and next_sstable_id
\* are what they were; so when some SSTable holds the id, get(id) after the
\* delete returns the copy of the first SSTable of the list that holds it, and
\* get_all_records() holds a record of the id.
C30_DeleteLeavesSsts ==
    \A id \in Ids :
        LET after == LSMEngine_delete(World, id).w
            all   == LSMEngine_get_all_records(after)
        IN  /\ after.ssts = sstables
            /\ after.files = files
            /\ after.next = next_sstable_id
            /\ InSomeSst(World, id) =>
                   /\ LSMEngine_get(after, id) = GetFromSsts(World, sstables, id)
                   /\ \E i \in 1..Len(all) : all[i].id = id

\* What a write of record r, logged as line, did to world w: without a rollover
\* on a memtable with room, with exactly one rollover on a full one.
WroteWithOneRollover(w, res, r) ==
    LET made == res.w.next - w.next
    IN  /\ res.ret \in {"Ok", "Ok(true)"}
        /\ ~MemTable_is_full(w) =>
               /\ made = 0
               /\ res.w.ssts = w.ssts
               /\ res.w.files = w.files
               /\ res.w.mem = Append(w.mem, r)
        /\ MemTable_is_full(w) =>
               /\ res.w.mem = <<r>>
               /\ res.w.wal = <<>>
               /\ made = IF Len(w.ssts) + 1 > CompactionThreshold THEN 2 ELSE 1
               /\ Len(res.w.ssts) = Len(w.ssts) + 2 - made
               /\ res.w.ssts[1].path = w.next
               /\ res.w.ssts[1].block = SortById(w.mem)
               /\ res.w.files[w.next].recs = SortById(w.mem)

\* C31 (capacity refusal is handled inside). With a memtable bound of at least
\* one and no I/O failure, insert and update never return an error, and a call
\* that finds the memtable full performs exactly one rollover and succeeds.
C31_CapacityHandledInside ==
    \A id \in Ids, data \in SpecPayloads :
        /\ WroteWithOneRollover(World, LSMEngine_insert(World, Record_new(id, data)),
                                Record_new(id, data))
        /\ LSMEngine_update(World, id, data).ret = "Ok(true)"
        /\ Block_get(memtable, id) = None =>
               WroteWithOneRollover(World, LSMEngine_update(World, id, data),
                                    Record_new(id, data))

\* An engine whose write has just rolled the full memtable over, whose memtable
\* is full again and whose next rollover compacts.
C31_Witness ==
    /\ truncated
    /\ MemTable_is_full(World)
    /\ Len(sstables) = CompactionThreshold
    /\ writelog = <<>>

\* C32 (update in place). update(id, payload) for an id the memtable holds
\* replaces the payload in place: the memtable has as many records as before,
\* no rollover happens even when the memtable is full, and the SST list and
\* next_sst_id are unchanged.
C32_UpdateInPlace ==
    \A id \in LogIds, data \in LogPayloads :
        Block_get(memtable, id) # None =>
            LET res == LSMEngine_update(World, id, data)
                at  == CHOOSE i \in 1..Len(memtable) :
                           /\ memtable[i].id = id
                           /\ \A j \in 1..(i - 1) : memtable[j].id # id
            IN  /\ res.ret = "Ok(true)"
                /\ Len(res.w.mem) = Len(memtable)
                /\ res.w.mem = [memtable EXCEPT ![at] = Record_new(id, data)]
                /\ res.w.ssts = sstables
                /\ res.w.next = next_sstable_id
                /\ res.w.files = files
                /\ res.w.wal = Append(writelog, UpdateLine(id, data))

\* The last call was an update of an id in a full memtable, which holds the
\* payload of the update and is as long as it was.
C32_Witness ==
    /\ Len(history) = 2
    /\ history[1].op = "Insert"
    /\ history[2].op = "Update"
    /\ history[2].id = history[1].id
    /\ history[2].data # history[1].data
    /\ max_size = 1
    /\ memtable = <<Record_new(history[2].id, history[2].data)>>

\* C33 (no empty SST). A rollover with an empty memtable, by flush(), by a
\* write or in the replay, creates no file and leaves the SST list and
\* next_sst_id unchanged, so every SST of the list, and every SSTable file,
\* holds at least one record.
C33_NoEmptySst ==
    \A w \in {World} \cup WorldsOfNew(World) :
        /\ \A i \in 1..Len(w.ssts) : Len(SSTable_get_all(w, w.ssts[i])) >= 1
        /\ \A n \in DOMAIN w.files : Len(w.files[n].recs) >= 1
        /\ Len(w.mem) = 0 =>
               LET f == LSMEngine_flush_memtable(w)
               IN  f.files = w.files /\ f.ssts = w.ssts /\ f.next = w.next

\* An engine with an empty memtable, SSTables of a rollover and of a
\* compaction, and nothing in write.log.
C33_Witness ==
    /\ memtable = <<>>
    /\ writelog = <<>>
    /\ Len(sstables) = CompactionThreshold
    /\ \E i \in 1..Len(sstables) : sstables[i].path > CompactionThreshold + 1

\* C34 (drop, then create again). After DROP TABLE t has succeeded and
\* CREATE TABLE t is issued again, the new table's engine holds nothing of the
\* dropped table: get_all_records() on it is empty, also after a restart.
C34_RecreatedTableIsEmpty ==
    \A name \in DOMAIN catalog.tables, columns \in Schemas :
        \A dropped \in QueryEngine_execute_drop(catalog, name) :
            dropped.ret = "DropTable" =>
                \A res \in QueryEngine_execute_create(dropped.c, name, columns) :
                    res.ret = "CreateTable" =>
                        /\ res.c.storage_engines[name] = 0
                        /\ QueryEngine_new_with_data_dir(res.c).storage_engines[name] = 0

\* C35 (the two maps agree). In every state of the query engine, after the
\* load and after every CREATE TABLE and DROP TABLE, successful or failed, the
\* schema map and the engine map hold the same table names.
C35_MapsAgree == DOMAIN catalog.tables = DOMAIN catalog.storage_engines

\* A CREATE TABLE has just failed in the write of tables.json, which is left
\* torn: the table is in both maps and not in the manifest, and a load before
\* it skipped a table whose engine could not be opened.
C35_Witness ==
    /\ catalog.ret = "InternalError"
    /\ catalog.torn
    /\ DOMAIN catalog.tables = {"t"}
    /\ catalog.manifest # None
    /\ {catalog.manifest[1][i].name : i \in 1..Len(catalog.manifest[1])} = {"u"}
    /\ catalog.created = {"u"}

\* C36 (lazy SSTable). An SSTable instantiated lazily from a path holds
\* nothing of its file until the first access, and from then on get, get_all
\* and size answer as the SSTable object that created the file does.
C36_LazyAnswersAsCreator ==
    \A i \in 1..Len(sstables) :
        LET s     == sstables[i]
            made  == history[s.path].block
            lazy  == SSTable_new_lazy(s.path)
            bytes == bincode_serialize(files[s.path].recs)
        IN  /\ ~lazy.is_loaded /\ lazy.block = <<>>
            /\ ~s.is_loaded => s = lazy
            /\ bincode_deserialize(bytes) = Some(files[s.path].recs)
            /\ \A t \in {s, lazy, SSTable_ensure_loaded(World, lazy)} :
                   /\ SSTable_get_all(World, t) = made
                   /\ SSTable_size(World, t) = Len(made)
                   /\ \A id \in Ids : SSTable_get(World, t, id) = BinarySearchOutcomes(made, id)

\* An SSTable of two records that a restart instantiated lazily has been read
\* since, and the SSTable behind it in the list has not.
C36_Witness ==
    /\ Len(sstables) = 2
    /\ history[sstables[1].path].read
    /\ sstables[1].is_loaded
    /\ Len(sstables[1].block) = 2
    /\ ~sstables[2].is_loaded

\* The bounds of a range: every id, one below and one above.
RangeBounds == 0..(MaxId + 1)

\* C37 (range read of an SSTable). For every SSTable of the engine and every
\* lo and hi, get_range(lo, hi) returns exactly the records of the SSTable with
\* lo <= id <= hi, in the SSTable's order, which is ascending by id; with
\* lo > hi it returns nothing.
C37_GetRangeExact ==
    \A i \in 1..Len(sstables), lo \in RangeBounds, hi \in RangeBounds :
        LET recs  == SSTable_get_all(World, sstables[i])
            range == SSTable_get_range(World, sstables[i], lo, hi)
            In(r) == lo <= r.id /\ r.id <= hi
        IN  /\ range = SelectSeq(recs, In)
            /\ \A a \in 1..Len(range), b \in 1..Len(range) :
                   a < b => range[a].id <= range[b].id
            /\ lo > hi => range = <<>>

\* The list holds a loaded and a lazy SSTable, each with the records of both
\* ids, so that a range can leave out the first record or the last.
C37_Witness ==
    /\ Len(sstables) = 2
    /\ sstables[1].is_loaded
    /\ ~sstables[2].is_loaded
    /\ \A i \in 1..2 :
           {r.id : r \in {files[sstables[i].path].recs[k] :
                             k \in 1..Len(files[sstables[i].path].recs)}} = Ids

\* The zero value of a column's type, as the decoder prints it.
ZeroValue(col) ==
    CASE col.data_type \in {"Integer", "Timestamp"} -> <<"0">>
      [] col.data_type = "Varchar" -> <<>>
      [] col.data_type = "Boolean" -> <<"f", "a", "l", "s", "e">>

\* The nominal width of the field of column col that starts at offset: 8 bytes
\* for an Integer or a Timestamp, 1 for a Boolean, and for a Varchar the 4
\* bytes of the length and the length they give, when the data holds them.
NominalWidth(data, col, offset) ==
    CASE col.data_type \in {"Integer", "Timestamp"} -> 8
      [] col.data_type = "Boolean" -> 1
      [] col.data_type = "Varchar" ->
             IF offset + 4 <= Len(data)
             THEN 4 + BeValue(SubSeq(data, offset + 1, offset + 4))
             ELSE 4

\* The canonical offset of field k: the nominal widths of the fields before it.
RECURSIVE CanonicalOffset(_, _, _)
CanonicalOffset(data, columns, k) ==
    IF k = 1 THEN 0
    ELSE LET before == CanonicalOffset(data, columns, k - 1)
         IN  before + NominalWidth(data, columns[k - 1], before)

====
